---- MODULE Spec2Model ----
(***************************************************************************)
(* NodeSeek sign-in plugin (plugins/nodeseeksign/__init__.py): the sign()  *)
(* entry point, the transport adapter chain, the response classifier, the  *)
(* outcome reconciler, the retry scheduler and the history ledger.         *)
(*                                                                         *)
(* Time is counted in minutes.  `now' is the UTC instant, `tz' the offset  *)
(* of the process-local timezone (datetime.now() is local wall time,       *)
(* datetime.utcnow() is UTC).  Strings are ASCII stand-ins for the         *)
(* plugin's Chinese literals; the mapping is given where each is defined.  *)
(***************************************************************************)
EXTENDS Integers, Sequences, FiniteSets, TLC

VARIABLES
    cookie,                 \* _cookie is non-empty
    notify,                 \* _notify
    history_days,           \* _history_days
    max_retries,            \* _max_retries
    retry_count,            \* _retry_count
    scheduled_retry,        \* _scheduled_retry: NoJob or the id of the last retry job
    scheduler,              \* _scheduler: "none" or "running"
    jobs,                   \* the jobs held by the plugin's BackgroundScheduler
    has_scraper,            \* HAS_CLOUDSCRAPER and self._scraper
    has_curl,               \* HAS_CURL_CFFI
    proxy,                  \* _use_proxy and settings.PROXY normalizes to a mapping
    sign_history,           \* persisted 'sign_history'
    last_sign_date,         \* persisted 'last_sign_date' (local minutes) or NoTime
    last_attendance_record, \* persisted 'last_attendance_record'
    now,                    \* UTC clock, minutes
    tz,                     \* local timezone offset, minutes
    inv,                    \* what the sign() call that has just returned did
    invCount,               \* number of invocations of sign() started so far
    initCount,              \* number of init_plugin calls so far
    store_ok                \* the key-value store works (get_data / save_data return)

vars == <<cookie, notify, history_days, max_retries, retry_count,
          scheduled_retry, scheduler, jobs, has_scraper, has_curl, proxy, sign_history,
          last_sign_date, last_attendance_record, now, tz,
          inv, invCount, initCount, store_ok>>

-----------------------------------------------------------------------------
(* Bounds of the exploration *)

MaxInv == 2
MaxInits == 1
MaxClock == 1

(* Program constants *)

MinutesPerDay == 1440
RetryMinMinutes == 5
RetryMaxMinutes == 15
WindowMinutes == 30
DefaultMaxRetries == 3
DefaultHistoryDays == 30

NoVal == -1
NoTime == -1
NoJob == 0

Day(t) == t \div MinutesPerDay

-----------------------------------------------------------------------------
(* Message texts.  A text is the set of phrases it contains:               *)
(*   "jitui" = the reward slang term, "already" = the already-completed   *)
(*   phrase (yi wancheng qiandao), "qiandao" = sign-in, "chenggong" =      *)
(*   success, "wancheng" = completed.  The already-completed phrase        *)
(*   contains the words sign-in and completed as substrings.               *)

Phrases == {"jitui", "already", "qiandao", "chenggong", "wancheng"}

SubPhrase(p, a) == \/ p = a
                   \/ a = "already" /\ p \in {"qiandao", "wancheng"}

\* tag "text": a message made of the phrases in toks (toks = {} is the empty
\* string, which is also what data.get('message', '') gives for a missing key);
\* tag "user_not_found": the exact string USER NOT FOUND.
Text(toks) == [tag |-> "text", toks |-> toks, code |-> 0]
UserNotFound == [tag |-> "user_not_found", toks |-> {}, code |-> 0]
Fixed(tag) == [tag |-> tag, toks |-> {}, code |-> 0]
Coded(tag, code) == [tag |-> tag, toks |-> {}, code |-> code]

Contains(msg, p) == msg.tag = "text" /\ \E a \in msg.toks : SubPhrase(p, a)
IsEmpty(msg) == msg.tag = "text" /\ msg.toks = {}

-----------------------------------------------------------------------------
(* _run_api_sign, JSON branch (lines 466-483).  data is the parsed body:    *)
(* success is "true", "false" or "absent"; status, gain and current are    *)
(* NoVal when the key is missing.                                          *)

NewResult == [success |-> FALSE, signed |-> FALSE, already_signed |-> FALSE,
              message |-> Text({}), gain |-> NoVal, current |-> NoVal]

GetOr(v, d) == IF v = NoVal THEN d ELSE v

ClassifySuccess(data, msg) ==
    LET gain == GetOr(data.gain, 0)
        current == GetOr(data.current, 0)
        r == [NewResult EXCEPT !.success = TRUE, !.signed = TRUE, !.message = msg]
    IN IF gain # 0 THEN [r EXCEPT !.gain = gain, !.current = current] ELSE r

\* ClassifyJson with the already-completed test ahead of the reward test
ClassifyJsonAlreadyFirst(data, status_code) ==
    LET msg == data.msg IN
    IF data.success = "true" THEN ClassifySuccess(data, msg)
    ELSE IF Contains(msg, "already")
        THEN [NewResult EXCEPT !.success = TRUE, !.already_signed = TRUE, !.message = msg]
    ELSE IF Contains(msg, "jitui")
        THEN [NewResult EXCEPT !.success = TRUE, !.signed = TRUE, !.message = msg]
    ELSE IF msg = UserNotFound \/ data.status = 404
        THEN [NewResult EXCEPT !.message = Fixed("cookie_invalid")]
    ELSE IF Contains(msg, "qiandao") /\ (Contains(msg, "chenggong") \/ Contains(msg, "wancheng"))
        THEN [NewResult EXCEPT !.success = TRUE, !.signed = TRUE, !.message = msg]
    ELSE [NewResult EXCEPT !.message =
             IF IsEmpty(msg) THEN Coded("unknown_response", status_code) ELSE msg]

ClassifyJson(data, status_code) ==
    LET msg == data.msg IN
    IF data.success = "true" THEN ClassifySuccess(data, msg)
    ELSE IF Contains(msg, "jitui")
        THEN [NewResult EXCEPT !.success = TRUE, !.signed = TRUE, !.message = msg]
    ELSE IF Contains(msg, "already")
        THEN [NewResult EXCEPT !.success = TRUE, !.already_signed = TRUE, !.message = msg]
    ELSE IF msg = UserNotFound \/ data.status = 404
        THEN [NewResult EXCEPT !.message = Fixed("cookie_invalid")]
    ELSE IF Contains(msg, "qiandao") /\ (Contains(msg, "chenggong") \/ Contains(msg, "wancheng"))
        THEN [NewResult EXCEPT !.success = TRUE, !.signed = TRUE, !.message = msg]
    ELSE [NewResult EXCEPT !.message =
             IF IsEmpty(msg) THEN Coded("unknown_response", status_code) ELSE msg]

-----------------------------------------------------------------------------
(* HTTP responses.  ct is "json" when the Content-Type contains             *)
(* application/json, "html" when it contains text/html, "other" otherwise. *)
(* A body is either JSON (isjson, data) or raw text; a raw text is the set  *)
(* of markers it contains: "jitui", "qiandao_chenggong", "qiandao_wancheng",*)
(* "success", "already", "cannot_get" (Cannot GET /api/attendance),        *)
(* "login" (any of the login / register / stranger markers).               *)

Raise == [kind |-> "raise"]
NoData == [success |-> "absent", msg |-> Text({}), status |-> NoVal,
           gain |-> NoVal, current |-> NoVal]
JsonResp(status, ct, data) ==
    [kind |-> "resp", status |-> status, ct |-> ct, isjson |-> TRUE,
     data |-> data, text |-> {}]
TextResp(status, ct, text) ==
    [kind |-> "resp", status |-> status, ct |-> ct, isjson |-> FALSE,
     data |-> NoData, text |-> text]

\* resp.status_code in (400, 403) or 'text/html' in ct.lower()
Blocked(resp) == resp.status \in {400, 403} \/ resp.ct = "html"

(* _smart_post (lines 609-676).  a, b, b2, p are what the cloudscraper       *)
(* call, the curl_cffi call, the second curl_cffi call and the requests    *)
(* call answer when they are made; the result is the response handed to   *)
(* the caller, or Raise.                                                    *)
\* CurlStage that hands back whatever curl_cffi answered
CurlStageUnchecked(b, b2, proxies, next) ==
    IF b.kind = "raise" THEN next ELSE b

CurlStage(b, b2, proxies, next) ==
    IF b.kind = "raise" THEN next
    ELSE IF Blocked(b)
        THEN IF proxies /\ b2.kind # "raise" /\ ~Blocked(b2) THEN b2 ELSE next
    ELSE b

PlainPost(p) == IF p.kind = "raise" \/ Blocked(p) THEN Raise ELSE p

_smart_post(a, b, b2, p, proxies) ==
    LET plain == PlainPost(p)
        curl == IF has_curl THEN CurlStage(b, b2, proxies, plain) ELSE plain
    IN IF has_scraper /\ a.kind # "raise" /\ ~Blocked(a) THEN a ELSE curl

(* _smart_get (lines 678-734): as _smart_post, but the requests call's       *)
(* response is returned without being inspected.                           *)
_smart_get(a, b, b2, p, proxies) ==
    LET curl == IF has_curl THEN CurlStage(b, b2, proxies, p) ELSE p
    IN IF has_scraper /\ a.kind # "raise" /\ ~Blocked(a) THEN a ELSE curl

(* The adapters a chain run invokes, in the order of the calls: "A" the     *)
(* cloudscraper call, "B" a curl_cffi call, "plain" the requests call.     *)
(* _smart_post and _smart_get make the same calls.                         *)
_smart_calls(a, b, b2, p, proxies) ==
    LET afall == ~has_scraper \/ a.kind = "raise" \/ Blocked(a)
        bagain == b.kind # "raise" /\ Blocked(b) /\ proxies
        bfall == \/ ~has_curl
                 \/ b.kind = "raise"
                 \/ Blocked(b) /\ ~(proxies /\ b2.kind # "raise" /\ ~Blocked(b2))
    IN (IF has_scraper THEN <<"A">> ELSE <<>>)
       \o (IF afall /\ has_curl
              THEN IF bagain THEN <<"B", "B">> ELSE <<"B">>
              ELSE <<>>)
       \o (IF afall /\ bfall THEN <<"plain">> ELSE <<>>)

(* Whether each of those calls is sent through the proxy.  Every call      *)
(* applies the proxies it was handed (lines 622-623, 640-641, 664-666);    *)
(* the second curl_cffi call is made on the same session, whose proxies    *)
(* were set at line 641 and are not taken off again (line 650).            *)
_smart_proxied(a, b, b2, p, proxies) ==
    [k \in DOMAIN _smart_calls(a, b, b2, p, proxies) |-> proxies]

(* self._scraper is created by init_plugin (lines 143-156) and kept from    *)
(* one call to the next.  Lines 622-623 and 685-686 assign its proxies only *)
(* when the call was handed proxies; session = the scraper has proxies set. *)
_scraper_proxies(proxies, session) == IF proxies THEN TRUE ELSE session

\* _smart_proxied on a scraper that earlier calls have used: the cloudscraper
\* call goes through whatever the session holds, curl_cffi gets a new
\* session in every call (line 639)
_smart_sent(a, b, b2, p, proxies, session) ==
    LET calls == _smart_calls(a, b, b2, p, proxies)
    IN [k \in DOMAIN calls |->
          IF calls[k] = "A" THEN _scraper_proxies(proxies, session) ELSE proxies]

(* CloudFlareBypassHelper.smart_get and smart_post (cf_bypass_helper.py,   *)
(* lines 51-116 and 118-184): has_scraper is HAS_CLOUDSCRAPER and          *)
(* self._scraper of the helper, has_curl is its HAS_CURL_CFFI.  The        *)
(* requests call's response is returned without being inspected, its       *)
(* exception is re-raised.                                                 *)
HelperCurl(b, next) == IF b.kind = "raise" \/ Blocked(b) THEN next ELSE b

smart_get(a, b, p) ==
    LET curl == IF has_curl THEN HelperCurl(b, p) ELSE p
    IN IF has_scraper /\ a.kind # "raise" /\ ~Blocked(a) THEN a ELSE curl

smart_post(a, b, p) ==
    LET curl == IF has_curl THEN HelperCurl(b, p) ELSE p
    IN IF has_scraper /\ a.kind # "raise" /\ ~Blocked(a) THEN a ELSE curl

smart_calls(a, b, p) ==
    LET afall == ~has_scraper \/ a.kind = "raise" \/ Blocked(a)
        bfall == ~has_curl \/ b.kind = "raise" \/ Blocked(b)
    IN (IF has_scraper THEN <<"A">> ELSE <<>>)
       \o (IF afall /\ has_curl THEN <<"B">> ELSE <<>>)
       \o (IF afall /\ bfall THEN <<"plain">> ELSE <<>>)

\* the helper applies self.proxies to every call (lines 92-93, 109)
smart_proxied(a, b, p) == [k \in DOMAIN smart_calls(a, b, p) |-> proxy]

-----------------------------------------------------------------------------
(* _run_api_sign, non-JSON branch (lines 484-526).                          *)

\* lines 494-515: warm is TRUE when _scraper_warmup_and_attach_user_cookie
\* returned the scraper; retry is the answer of warm.post.  The result is
\* returned from inside the branch only for success and already-signed.
WarmupResult(warm, retry) ==
    IF warm /\ retry.kind = "resp" /\ retry.ct = "json" /\ retry.isjson
    THEN IF retry.data.success = "true"
            THEN ClassifySuccess(retry.data, retry.data.msg)
         ELSE IF Contains(retry.data.msg, "already")
            THEN [NewResult EXCEPT !.success = TRUE, !.already_signed = TRUE,
                                   !.message = retry.data.msg]
         ELSE NewResult
    ELSE NewResult

\* lines 516-525
ClassifyText(text, status_code) ==
    IF text \cap {"jitui", "qiandao_chenggong", "qiandao_wancheng", "success"} # {}
        THEN [NewResult EXCEPT !.success = TRUE, !.signed = TRUE, !.message = Fixed("snippet")]
    ELSE IF "already" \in text
        THEN [NewResult EXCEPT !.success = TRUE, !.already_signed = TRUE,
                               !.message = Fixed("snippet")]
    ELSE IF "cannot_get" \in text
        THEN [NewResult EXCEPT !.message = Fixed("rejected_get")]
    ELSE IF "login" \in text
        THEN [NewResult EXCEPT !.message = Fixed("not_logged_in")]
    ELSE [NewResult EXCEPT !.message = Coded("non_json", status_code)]

\* _scraper_warmup_and_attach_user_cookie (lines 531-552): the scraper, or
\* None when there is no scraper or the warm-up GET raised.
_scraper_warmup_and_attach_user_cookie(warmGetOk) == has_scraper /\ warmGetOk

(* _run_api_sign (lines 431-529): response is what _smart_post handed back. *)
(* For a body that is not JSON the snippet is saved first (line 488); a    *)
(* save_data that raises ends in the outer except (lines 527-529).         *)
_run_api_sign(response, warmGetOk, retry) ==
    IF response.kind = "raise"
        THEN [NewResult EXCEPT !.message = Fixed("api_error")]
    ELSE IF response.isjson
        THEN ClassifyJson(response.data, response.status)
    ELSE IF ~store_ok
        THEN [NewResult EXCEPT !.message = Fixed("api_error")]
    ELSE LET w == WarmupResult(_scraper_warmup_and_attach_user_cookie(warmGetOk), retry)
         IN IF w.success THEN w ELSE ClassifyText(response.text, response.status)

\* text[:400] if len(text) > 400 else text (line 486), as a length
SnippetLength(len) == IF len > 400 THEN 400 ELSE len

(* What _run_api_sign does for a body that is not JSON, in order (lines    *)
(* 484-526): "save_snippet" line 488, "warmup" line 494, "retry_post" line *)
(* 499, "classify_text" lines 516-525.                                     *)
_run_api_sign_steps(response, warmGetOk, retry) ==
    IF response.kind = "raise" \/ response.isjson THEN <<>>
    ELSE IF ~store_ok THEN <<"save_snippet">>
    ELSE LET warm == _scraper_warmup_and_attach_user_cookie(warmGetOk)
             w == WarmupResult(warm, retry)
         IN <<"save_snippet", "warmup">>
            \o (IF warm THEN <<"retry_post">> ELSE <<>>)
            \o (IF w.success THEN <<>> ELSE <<"classify_text">>)

-----------------------------------------------------------------------------
(* Attendance records.  created is the UTC instant of created_at, off the  *)
(* UTC offset written in the string (0 for a trailing Z); created is       *)
(* NoTime when the key is missing and BadTime when fromisoformat rejects   *)
(* the string.  gain, rank and total are 0 when missing.  EmptyRecord is   *)
(* the empty dict (and the empty string clear_sign_history stores).        *)

BadTime == -2
ShanghaiOffset == 480

EmptyRecord == [has |-> FALSE, created |-> NoTime, off |-> 0,
                gain |-> 0, rank |-> 0, total |-> 0]

\* answer of the board endpoint: a JSON body with a record object and,
\* when order > 0, the keys order and total; or a body that is not JSON
BoardJson(status, ct, rec, order, total) ==
    [kind |-> "resp", status |-> status, ct |-> ct, isjson |-> TRUE,
     rec |-> rec, order |-> order, total |-> total]
BoardText(status, ct) ==
    [kind |-> "resp", status |-> status, ct |-> ct, isjson |-> FALSE,
     rec |-> EmptyRecord, order |-> 0, total |-> 0]

\* lines 827-836: the cached record is used only when its date in
\* Asia/Shanghai is today's date in Asia/Shanghai
CachedIfToday(cached) ==
    IF /\ cached.has
       /\ cached.created \notin {NoTime, BadTime}
       /\ Day(cached.created + ShanghaiOffset) = Day(now + ShanghaiOffset)
    THEN cached ELSE EmptyRecord

\* lines 837-864: order/total are promoted into rank/total_signers
Promote(resp) ==
    IF resp.order # 0
    THEN [resp.rec EXCEPT !.rank = resp.order, !.total = resp.total]
    ELSE [resp.rec EXCEPT !.rank = 0, !.total = 0]

(* _fetch_attendance_record (lines 768-867): resp is what _smart_get handed *)
(* back.  The result is <<record, new value of last_attendance_record>>.    *)
(* A save_data or get_data that raises (lines 822, 827, 855) ends in the    *)
(* outer except, which returns {}.                                         *)
_fetch_attendance_record(resp) ==
    IF resp.kind = "raise" THEN <<EmptyRecord, last_attendance_record>>
    ELSE IF ~resp.isjson
        THEN IF store_ok
                THEN <<CachedIfToday(last_attendance_record), last_attendance_record>>
                ELSE <<EmptyRecord, last_attendance_record>>
    ELSE IF resp.rec.has
        THEN IF store_ok THEN <<Promote(resp), Promote(resp)>>
             ELSE <<EmptyRecord, last_attendance_record>>
    ELSE <<EmptyRecord, last_attendance_record>>

-----------------------------------------------------------------------------
(* History ledger.  An entry is a sign_dict: date is the local wall time   *)
(* it was created (BadTime when strptime rejects the stored string), status*)
(* one of                                                                  *)
(*   "Success"             qiandao chenggong                                *)
(*   "AlreadySigned"       yi qiandao                                       *)
(*   "AlreadyByRecord"     yi qiandao (jilu queren)                         *)
(*   "SuccessByTimeWindow" qiandao chenggong (doudi shijian yanzheng)       *)
(*   "Failed"              qiandao shibai                                   *)
(*   "FailedNoCookie"      qiandao shibai: wei peizhi Cookie                *)
(*   "Error"               qiandao chucuo: <exception>                      *)
(* gain, rank, total are 0 when the key is absent; inv names the           *)
(* invocation of sign() that created the entry.                            *)

LocalNow == now + tz

\* Retained that keeps only entries whose date parses
RetainedParsed(record) ==
    record.date # BadTime /\ Day(LocalNow - record.date) < history_days

\* lines 902-921: an entry is kept when its whole-day age is below the
\* retention; an entry whose date does not parse is re-dated and kept
Retained(record) ==
    record.date = BadTime \/ Day(LocalNow - record.date) < history_days

\* Repaired that re-dates every entry it keeps
RepairedAlways(record) == [record EXCEPT !.date = LocalNow]

\* lines 915-920: only the except branch assigns record["date"]
Repaired(record) ==
    IF record.date = BadTime THEN [record EXCEPT !.date = LocalNow] ELSE record

RECURSIVE Prune(_)
Prune(history) ==
    IF history = <<>> THEN <<>>
    ELSE LET rest == Prune(Tail(history))
         IN IF Retained(Head(history)) THEN <<Repaired(Head(history))>> \o rest ELSE rest

(* _save_sign_history (lines 869-933): the new value of 'sign_history'.    *)
\* A failure of get_data or save_data is caught (lines 929-933): nothing is
\* written.
_save_sign_history(history, sign_data) ==
    IF store_ok THEN Prune(Append(history, sign_data)) ELSE history

(* _is_already_signed_today (lines 1196-1229): an entry whose date starts   *)
(* with today's local date and whose status is one of the two literals     *)
(* "qiandao chenggong", "yi qiandao", or a last_sign_date on today's date. *)
_is_already_signed_today ==
    \/ \E i \in 1..Len(sign_history) :
          /\ sign_history[i].date # BadTime
          /\ Day(sign_history[i].date) = Day(LocalNow)
          /\ sign_history[i].status \in {"Success", "AlreadySigned"}
    \/ /\ last_sign_date # NoTime
       /\ Day(last_sign_date) = Day(LocalNow)

-----------------------------------------------------------------------------
(* Outcome reconciler (sign, lines 309-335): the status written for a      *)
(* Failed verdict.  record_date.date() is the date in the offset written   *)
(* in created_at, today is the local date; the window compares utcnow()    *)
(* with the wall time written in created_at.                               *)

Abs(x) == IF x < 0 THEN -x ELSE x

Reconcile(record) ==
    IF ~record.has \/ record.created = NoTime THEN "Failed"
    ELSE IF record.created = BadTime THEN "Failed"
    ELSE IF Day(record.created + record.off) = Day(LocalNow) THEN "AlreadyByRecord"
    ELSE IF Abs(now - (record.created + record.off)) < WindowMinutes
        THEN "SuccessByTimeWindow"
    ELSE "Failed"

-----------------------------------------------------------------------------
(* sign() (lines 218-429).  c is the plugin state the running call has     *)
(* built so far, together with what the call did: saved = the sign_dicts   *)
(* handed to _save_sign_history, notes = the post_message calls, added /   *)
(* removed = the scheduler jobs added and removed, raised = an exception   *)
(* is propagating, ret = the sign_dict to return.                          *)

NoEntry == [inv |-> 0, date |-> NoTime, status |-> "none",
            gain |-> 0, rank |-> 0, total |-> 0]

NewEntry(id, status) == [inv |-> id, date |-> LocalNow, status |-> status,
                         gain |-> 0, rank |-> 0, total |-> 0]

Ctx(jb) == [h |-> sign_history, lsd |-> last_sign_date, rc |-> retry_count,
            sch |-> scheduler, jb |-> jb, sr |-> scheduled_retry,
            saved |-> <<>>, notes |-> <<>>, added |-> {}, removed |-> {},
            raised |-> FALSE, ret |-> NoEntry]

Save(c, e) == [c EXCEPT !.h = _save_sign_history(c.h, e),
                        !.saved = Append(@, e), !.ret = e]

\* self.post_message(...): sinkOk = the sink accepts the message
post_message(c, kind, sinkOk) ==
    [c EXCEPT !.notes = Append(@, kind), !.raised = ~sinkOk]

\* _send_sign_notification (lines 952-1186): a failure of the sink is caught
_send_sign_notification(c, status) ==
    IF ~notify THEN c
    ELSE [c EXCEPT !.notes = Append(@, IF status = "Success" THEN "success"
                                       ELSE "already")]

\* NoCookiePath that counts the call as an attempt
NoCookiePathCounted(c, id, sinkOk) ==
    LET c1 == Save([c EXCEPT !.rc = @ + 1], NewEntry(id, "FailedNoCookie"))
    IN IF notify THEN post_message(c1, "no_cookie", sinkOk) ELSE c1

\* lines 226-241
NoCookiePath(c, id, sinkOk) ==
    LET c1 == Save(c, NewEntry(id, "FailedNoCookie"))
    IN IF notify THEN post_message(c1, "no_cookie", sinkOk) ELSE c1

\* SuccessBranch that writes "Success" whatever the result says
SuccessBranchAlwaysSuccess(c, id, result, record) ==
    LET status == "Success"
        e0 == NewEntry(id, status)
        e == IF record.has /\ record.gain # 0
                THEN IF record.rank # 0
                        THEN [e0 EXCEPT !.gain = record.gain, !.rank = record.rank,
                                        !.total = record.total]
                        ELSE [e0 EXCEPT !.gain = record.gain]
             ELSE IF result.gain \notin {NoVal, 0}
                THEN [e0 EXCEPT !.gain = result.gain]
             ELSE e0
        c1 == Save(c, e)
        c2 == [c1 EXCEPT !.lsd = LocalNow, !.rc = 0]
    IN IF store_ok THEN _send_sign_notification(c2, status)
       ELSE [c1 EXCEPT !.raised = TRUE]

\* lines 265-300; _save_last_sign_date (lines 1188-1194) does not catch a
\* save_data that raises
SuccessBranch(c, id, result, record) ==
    LET status == IF result.already_signed THEN "AlreadySigned" ELSE "Success"
        e0 == NewEntry(id, status)
        e == IF record.has /\ record.gain # 0
                THEN IF record.rank # 0
                        THEN [e0 EXCEPT !.gain = record.gain, !.rank = record.rank,
                                        !.total = record.total]
                        ELSE [e0 EXCEPT !.gain = record.gain]
             ELSE IF result.gain \notin {NoVal, 0}
                THEN [e0 EXCEPT !.gain = result.gain]
             ELSE e0
        c1 == Save(c, e)
        c2 == [c1 EXCEPT !.lsd = LocalNow, !.rc = 0]
    IN IF store_ok THEN _send_sign_notification(c2, status)
       ELSE [c1 EXCEPT !.raised = TRUE]

\* scheduler.remove_job(id): a missing job raises, which sign() ignores
remove_job(c, id) ==
    LET gone == {j \in c.jb : j.id = id}
    IN [c EXCEPT !.jb = c.jb \ gone, !.removed = @ \cup gone]

\* RemovePrevious that leaves the earlier retry job in the scheduler
RemovePreviousKeep(c) == c

\* lines 363-369
RemovePrevious(c) == IF c.sr # NoJob THEN remove_job(c, c.sr) ELSE c

\* lines 350-386: retry_minutes = random.randint(5, 15); the job id is
\* nodeseek_retry_<int(time.time())>; add_job raises on an id already present
ScheduleRetry(c, retry_minutes, sinkOk) ==
    LET c1 == [c EXCEPT !.rc = @ + 1,
                        !.sch = "running",
                        !.jb = IF c.sch = "none" THEN {} ELSE @]
        c2 == RemovePrevious(c1)
        job == [id |-> now, kind |-> "retry"]
        c3 == [c2 EXCEPT !.sr = now]
        c4 == IF \E j \in c3.jb : j.id = now
                THEN [c3 EXCEPT !.raised = TRUE]
                ELSE [c3 EXCEPT !.jb = @ \cup {job},
                                !.added = @ \cup {[id |-> now,
                                                   run_date |-> LocalNow + retry_minutes]}]
    IN IF c4.raised \/ ~notify THEN c4 ELSE post_message(c4, "retry", sinkOk)

\* FailureBranch that still retries with attempts-used at max-attempts
FailureBranchInclusive(c, id, record, retry_minutes, sinkOk) ==
    LET c1 == Save(c, NewEntry(id, Reconcile(record)))
    IN IF max_retries # 0 /\ c1.rc <= max_retries
        THEN ScheduleRetry(c1, retry_minutes, sinkOk)
       ELSE IF notify THEN post_message(c1, "final_failure", sinkOk)
       ELSE c1

\* lines 301-400
FailureBranch(c, id, record, retry_minutes, sinkOk) ==
    LET c1 == Save(c, NewEntry(id, Reconcile(record)))
    IN IF max_retries # 0 /\ c1.rc < max_retries
        THEN ScheduleRetry(c1, retry_minutes, sinkOk)
       ELSE IF notify THEN post_message(c1, "final_failure", sinkOk)
       ELSE c1

\* lines 404-429: the except block of sign()
ExceptBlock(c, id, sinkOk) ==
    IF ~c.raised THEN c
    ELSE LET c1 == Save([c EXCEPT !.raised = FALSE], NewEntry(id, "Error"))
         IN IF notify THEN post_message(c1, "error", sinkOk) ELSE c1

\* what a call did that the rest of the plugin can see
Did(c) == [h |-> c.h, saved |-> c.saved, added |-> c.added, rc |-> c.rc,
           ret |-> c.ret]

\* quiet is what the same call does when the notification sink accepts
\* every message
IdleInv == [id |-> 0, path |-> "none", retry_before |-> 0, jobs_before |-> {},
            all_blocked |-> FALSE, resp |-> Raise, verdict |-> NewResult,
            record |-> EmptyRecord,
            saved |-> <<>>, notes |-> <<>>, added |-> {}, removed |-> {},
            escaped |-> FALSE, ret |-> NoEntry, requests |-> {},
            quiet |-> [h |-> <<>>, saved |-> <<>>, added |-> {}, rc |-> 0,
                       ret |-> NoEntry]]

\* the return of sign(): the state built by the last step becomes the
\* plugin's state
Return(g, c) ==
    /\ sign_history' = c.h
    /\ last_sign_date' = c.lsd
    /\ retry_count' = c.rc
    /\ scheduler' = c.sch
    /\ jobs' = c.jb
    /\ scheduled_retry' = c.sr
    /\ inv' = [g EXCEPT !.saved = c.saved, !.notes = c.notes, !.added = c.added,
                        !.removed = c.removed, !.escaped = c.raised, !.ret = c.ret]

-----------------------------------------------------------------------------
(* What the environment can answer *)

Outcomes == {"raise", "blocked", "ok"}
\* a retry delay drawn one minute too wide
DelaysWide == RetryMinMinutes..(RetryMaxMinutes + 1)
Delays == RetryMinMinutes..RetryMaxMinutes

MkData(success, msg, status, gain, current) ==
    [success |-> success, msg |-> msg, status |-> status, gain |-> gain,
     current |-> current]

\* the block page of the anti-bot layer
BlockPage == TextResp(403, "html", {"login"})

\* sign-in answers of the server
SignPayloads ==
    { JsonResp(200, "json", MkData("true", Text({}), NoVal, 5, 120)),
      JsonResp(500, "json", MkData("false", Text({"already"}), NoVal, NoVal, NoVal)),
      JsonResp(200, "json", MkData("absent", UserNotFound, NoVal, NoVal, NoVal)),
      TextResp(200, "other", {"qiandao_chenggong"}) }

\* answers to the POST that follows the warm-up
WarmPayloads ==
    { Raise,
      JsonResp(200, "json", MkData("false", Text({"already"}), NoVal, NoVal, NoVal)) }

\* the warm-up GET and POST are made only for a body that is not JSON
NonJson(response) == response.kind = "resp" /\ ~response.isjson
WarmGets(response) == IF NonJson(response) THEN BOOLEAN ELSE {FALSE}
WarmPosts(response) == IF NonJson(response) THEN WarmPayloads ELSE {Raise}

Answer(outcome, payload) ==
    IF outcome = "raise" THEN Raise
    ELSE IF outcome = "blocked" THEN BlockPage
    ELSE payload

\* the four calls of one chain run: cloudscraper, curl_cffi, curl_cffi again,
\* requests
ChainRuns == Outcomes \X Outcomes \X Outcomes \X Outcomes

AllBlocked(t) == \A i \in 1..4 : t[i] = "blocked"

\* what _smart_post can hand to _run_api_sign, with whether every adapter
\* answered the block page
PostResults ==
    { [response |-> _smart_post(Answer(t[1], p), Answer(t[2], p), Answer(t[3], p),
                                Answer(t[4], p), proxy),
       all_blocked |-> AllBlocked(t)] : t \in ChainRuns, p \in SignPayloads }

\* age of the record in minutes: a recent one, and an older one whose UTC
\* date and local date differ from each other in this timezone
RecordAges == IF tz = 480 THEN {10, 530} ELSE {10, 1300}

\* created_at of the record: a past instant, a missing key, or a string
\* datetime.fromisoformat rejects
RecordTimes ==
    {now - a : a \in RecordAges} \cup (IF tz = 0 THEN {NoTime, BadTime} ELSE {})

Records ==
    { [has |-> TRUE, created |-> t, off |-> 0, gain |-> 3, rank |-> 0,
       total |-> 0] : t \in RecordTimes }

BoardBlockPage == BoardText(403, "html")

BoardPayloads ==
    { BoardJson(200, "json", r, 7, 99) : r \in Records }
    \cup { BoardJson(200, "json", EmptyRecord, 0, 0), BoardText(200, "other") }

BoardAnswer(outcome, payload) ==
    IF outcome = "raise" THEN Raise
    ELSE IF outcome = "blocked" THEN BoardBlockPage
    ELSE payload

\* what _smart_get can hand to _fetch_attendance_record
BoardResults ==
    { _smart_get(BoardAnswer(t[1], p), BoardAnswer(t[2], p), BoardAnswer(t[3], p),
                 BoardAnswer(t[4], p), proxy) : t \in ChainRuns, p \in BoardPayloads }

-----------------------------------------------------------------------------
(* Actions *)

StartClock == 3120
ClockStep == 720
Environments == { [tz |-> 0, has_curl |-> FALSE], [tz |-> 480, has_curl |-> TRUE],
                  [tz |-> -480, has_curl |-> FALSE] }

Config(c, n, hd, mr, once, clear) ==
    [cookie |-> c, notify |-> n, history_days |-> hd, max_retries |-> mr,
     onlyonce |-> once, clear_history |-> clear]
Configs == { Config(FALSE, TRUE, 2, 2, TRUE, FALSE),
             Config(TRUE, FALSE, 2, 2, FALSE, FALSE),
             Config(TRUE, TRUE, 0, 0, TRUE, TRUE),
             Config(TRUE, TRUE, 2, 1, FALSE, FALSE) }

\* the class attributes (lines 66-88) and an empty key-value store
Init ==
    /\ cookie = FALSE
    /\ notify = FALSE
    /\ history_days = DefaultHistoryDays
    /\ max_retries = DefaultMaxRetries
    /\ retry_count = 0
    /\ scheduled_retry = NoJob
    /\ scheduler = "none"
    /\ jobs = {}
    /\ has_scraper = FALSE
    /\ proxy = TRUE
    /\ sign_history = <<>>
    /\ last_sign_date = NoTime
    /\ last_attendance_record = EmptyRecord
    /\ now = StartClock
    /\ \E e \in Environments : tz = e.tz /\ has_curl = e.has_curl
    /\ inv = IdleInv
    /\ invCount = 0
    /\ initCount = 0
    /\ store_ok = TRUE

\* random.randint(5, 15) is called only on the way to a retry (line 352)
RetryDraws(result) ==
    IF result.success \/ max_retries = 0 \/ retry_count >= max_retries
    THEN {RetryMinMinutes} ELSE Delays

\* the sink is reached only with notifications on
SinkDraws == IF notify THEN BOOLEAN ELSE {TRUE}

\* lines 226-241 and 404-429: sign() without a cookie
WithoutCookie(jb, id, sinkOk) ==
    ExceptBlock(NoCookiePath(Ctx(jb), id, sinkOk), id, sinkOk)

\* lines 264-429: sign() from the classifier's result and the fetched record
WithCookie(jb, id, result, attendance_record, retry_minutes, sinkOk) ==
    ExceptBlock(IF result.success
                  THEN SuccessBranch(Ctx(jb), id, result, attendance_record)
                  ELSE FailureBranch(Ctx(jb), id, attendance_record,
                                     retry_minutes, sinkOk),
                id, sinkOk)

\* the helpers of sign() that send requests to the site, as far as the call
\* gets: lines 247 and 260 always, line 296 unless line 283 raised, line 340
\* always; without a cookie sign() returns at line 241
Requests(result) ==
    {"_run_api_sign", "_fetch_attendance_record"}
        \cup (IF result.success /\ ~store_ok THEN {} ELSE {"_get_signin_stats"})

(* sign() (lines 218-429), run by the one worker from entry to return; jb  *)
(* is the scheduler's job set once the trigger has fired.                  *)
sign(jb) ==
    /\ inv = IdleInv
    /\ invCount < MaxInv
    /\ invCount' = invCount + 1
    /\ LET id == invCount + 1
           g == [IdleInv EXCEPT !.id = id, !.retry_before = retry_count,
                                !.jobs_before = jb]
       IN IF ~cookie
          THEN /\ \E sinkOk \in SinkDraws :
                    Return([g EXCEPT !.path = "no_cookie",
                                     !.quiet = Did(WithoutCookie(jb, id, TRUE))],
                           WithoutCookie(jb, id, sinkOk))
               /\ UNCHANGED last_attendance_record
          ELSE \E post \in PostResults, board \in BoardResults :
               \E warmGetOk \in WarmGets(post.response),
                  retry \in WarmPosts(post.response) :
               \E retry_minutes \in RetryDraws(_run_api_sign(post.response, warmGetOk, retry)),
                  sinkOk \in SinkDraws :
                  LET result == _run_api_sign(post.response, warmGetOk, retry)
                      fetched == _fetch_attendance_record(board)
                      attendance_record == fetched[1]
                  IN /\ last_attendance_record' = fetched[2]
                     /\ Return([g EXCEPT !.path = IF result.success THEN "success"
                                                  ELSE "failure",
                                         !.resp = post.response,
                                         !.all_blocked = post.all_blocked,
                                         !.verdict = result,
                                         !.record = attendance_record,
                                         !.requests = Requests(result),
                                         !.quiet = Did(WithCookie(jb, id, result,
                                                                  attendance_record,
                                                                  retry_minutes, TRUE))],
                               WithCookie(jb, id, result, attendance_record,
                                          retry_minutes, sinkOk))
    /\ UNCHANGED <<cookie, notify, history_days, max_retries, has_scraper, has_curl,
                   proxy, now, tz, initCount, store_ok>>

\* the host calls sign() (cron service registered by get_service)
HostSign == sign(jobs)

\* a date-trigger job of the plugin's scheduler fires: it leaves the job
\* store and sign() runs
JobFire == \E j \in jobs : scheduler = "running" /\ sign(jobs \ {j})

\* stop_service (lines 1853-1864)
StopService ==
    /\ inv = IdleInv
    /\ scheduler # "none"
    /\ scheduler' = "none"
    /\ jobs' = {}
    /\ UNCHANGED <<inv, cookie, notify, history_days, max_retries, retry_count,
                   scheduled_retry, has_scraper, has_curl, proxy, sign_history,
                   last_sign_date, last_attendance_record, now, tz,
                   invCount, initCount, store_ok>>

\* init_plugin(config) with a config dict (lines 90-216); the run-once job
\* gets a fresh generated id
init_plugin ==
    /\ inv = IdleInv
    /\ initCount < MaxInits
    /\ initCount' = initCount + 1
    /\ \E cfg \in Configs :
          /\ cookie' = cfg.cookie
          /\ notify' = cfg.notify
          /\ history_days' = cfg.history_days
          /\ max_retries' = cfg.max_retries
          /\ has_scraper' = TRUE
          /\ IF cfg.onlyonce
                THEN /\ scheduler' = "running"
                     /\ jobs' = {[id |-> -(initCount + 1), kind |-> "once"]}
                ELSE /\ scheduler' = "none"
                     /\ jobs' = {}
          /\ IF cfg.onlyonce /\ cfg.clear_history /\ store_ok
                THEN /\ sign_history' = <<>>
                     /\ last_sign_date' = NoTime
                     /\ last_attendance_record' = EmptyRecord
                ELSE UNCHANGED <<sign_history, last_sign_date, last_attendance_record>>
    /\ UNCHANGED <<inv, retry_count, scheduled_retry, has_curl, proxy, now, tz,
                   invCount, store_ok>>

\* the caller of sign() has taken the returned sign_dict
Returned ==
    /\ inv # IdleInv
    /\ inv' = IdleInv
    /\ UNCHANGED <<cookie, notify, history_days, max_retries, retry_count,
                   scheduled_retry, scheduler, jobs, has_scraper, has_curl, proxy,
                   sign_history, last_sign_date, last_attendance_record, now, tz,
                   invCount, initCount, store_ok>>

\* time passes
Tick ==
    /\ inv = IdleInv
    /\ now < StartClock + MaxClock * ClockStep
    /\ now' = now + ClockStep
    /\ UNCHANGED <<inv, cookie, notify, history_days, max_retries, retry_count,
                   scheduled_retry, scheduler, jobs, has_scraper, has_curl, proxy,
                   sign_history, last_sign_date, last_attendance_record, tz,
                   invCount, initCount, store_ok>>

Next ==
    \/ HostSign
    \/ JobFire
    \/ StopService
    \/ init_plugin
    \/ Returned
    \/ Tick

Spec == Init /\ [][Next]_vars

(* The plugin with a key-value store that can stop and resume working:     *)
(* while it is down every get_data and save_data raises.                   *)
StoreStops ==
    /\ inv = IdleInv
    /\ store_ok
    /\ store_ok' = FALSE
    /\ UNCHANGED <<inv, cookie, notify, history_days, max_retries, retry_count,
                   scheduled_retry, scheduler, jobs, has_scraper, has_curl, proxy,
                   sign_history, last_sign_date, last_attendance_record, now, tz,
                   invCount, initCount>>

StoreResumes ==
    /\ inv = IdleInv
    /\ ~store_ok
    /\ store_ok' = TRUE
    /\ UNCHANGED <<inv, cookie, notify, history_days, max_retries, retry_count,
                   scheduled_retry, scheduler, jobs, has_scraper, has_curl, proxy,
                   sign_history, last_sign_date, last_attendance_record, now, tz,
                   invCount, initCount>>

NextStore == Next \/ StoreStops \/ StoreResumes

SpecStore == Init /\ [][NextStore]_vars

-----------------------------------------------------------------------------
(* The retry loop on its own: the plugin is configured with a cookie, the  *)
(* host triggers sign() once, and from then on only the retry jobs the     *)
(* plugin schedules itself trigger it.  The scheduler runs a date job when *)
(* its run_date comes, and a call of sign() returns.                       *)

InitRetry ==
    /\ cookie = TRUE
    /\ notify \in BOOLEAN
    /\ history_days = DefaultHistoryDays
    /\ max_retries \in 0..(MaxInv - 1)
    /\ retry_count = 0
    /\ scheduled_retry = NoJob
    /\ scheduler = "none"
    /\ jobs = {}
    /\ has_scraper = TRUE
    /\ proxy = TRUE
    /\ sign_history = <<>>
    /\ last_sign_date = NoTime
    /\ last_attendance_record = EmptyRecord
    /\ now = StartClock
    /\ \E e \in Environments : tz = e.tz /\ has_curl = e.has_curl
    /\ inv = IdleInv
    /\ invCount = 0
    /\ initCount = 0
    /\ store_ok = TRUE

\* the sign-in keeps failing: the request raises in every adapter, or the
\* server answers that the sign-in failed
FailingPosts ==
    { [response |-> Raise, all_blocked |-> FALSE],
      [response |-> JsonResp(500, "json", MkData("false", Text({}), NoVal, NoVal, NoVal)),
       all_blocked |-> FALSE] }

\* the board is out of reach or has no record of today
FailingBoards == { Raise, BoardJson(200, "json", EmptyRecord, 0, 0) }

\* the shortest and the longest delay random.randint(5, 15) can draw
DelayEnds == {RetryMinMinutes, RetryMaxMinutes}

(* sign() (lines 218-429) with a cookie, for a sign-in that fails *)
sign_failing(jb) ==
    /\ inv = IdleInv
    /\ invCount < MaxInv
    /\ invCount' = invCount + 1
    /\ \E post \in FailingPosts, board \in FailingBoards :
       \E retry_minutes \in DelayEnds, sinkOk \in SinkDraws :
          LET id == invCount + 1
              result == _run_api_sign(post.response, FALSE, Raise)
              fetched == _fetch_attendance_record(board)
          IN /\ ~result.success
             /\ last_attendance_record' = fetched[2]
             /\ Return([IdleInv EXCEPT !.id = id, !.retry_before = retry_count,
                                       !.jobs_before = jb, !.path = "failure",
                                       !.resp = post.response, !.verdict = result,
                                       !.record = fetched[1],
                                       !.requests = Requests(result),
                                       !.quiet = Did(WithCookie(jb, id, result, fetched[1],
                                                                retry_minutes, TRUE))],
                       WithCookie(jb, id, result, fetched[1], retry_minutes, sinkOk))
    /\ UNCHANGED <<cookie, notify, history_days, max_retries, has_scraper, has_curl,
                   proxy, now, tz, initCount, store_ok>>

\* the one trigger that is not a retry
FirstSign == invCount = 0 /\ sign_failing(jobs)

\* the retry job fires
RetryFire == \E j \in jobs : scheduler = "running" /\ sign_failing(jobs \ {j})

NextRetry ==
    \/ FirstSign
    \/ RetryFire
    \/ Returned
    \/ Tick

SpecRetry ==
    InitRetry /\ [][NextRetry]_vars /\ WF_vars(RetryFire) /\ WF_vars(Returned)

(* The configured plugin reconfigured while it runs: init_plugin may be    *)
(* called between any two calls of sign().                                 *)
NextReconfig ==
    \/ HostSign
    \/ JobFire
    \/ Returned
    \/ init_plugin

SpecReconfig == InitRetry /\ [][NextReconfig]_vars

-----------------------------------------------------------------------------
(* The classifier on its own: Init draws a JSON sign-in answer, the one     *)
(* step hands it to _run_api_sign.                                         *)

JsonBodies ==
    { MkData(su, m, st, g, cu) :
        su \in {"true", "false", "absent"},
        m \in {Text(T) : T \in SUBSET Phrases} \cup {UserNotFound},
        st \in {NoVal, 200, 404},
        g \in {NoVal, 0, 5},
        cu \in {NoVal, 120} }

InitClassify ==
    /\ cookie = TRUE
    /\ notify = FALSE
    /\ history_days = DefaultHistoryDays
    /\ max_retries = DefaultMaxRetries
    /\ retry_count = 0
    /\ scheduled_retry = NoJob
    /\ scheduler = "none"
    /\ jobs = {}
    /\ has_scraper = FALSE
    /\ has_curl = FALSE
    /\ proxy = FALSE
    /\ sign_history = <<>>
    /\ last_sign_date = NoTime
    /\ last_attendance_record = EmptyRecord
    /\ now = StartClock
    /\ tz = 0
    /\ \E d \in JsonBodies, code \in {200, 500} :
          inv = [IdleInv EXCEPT !.path = "answer", !.resp = JsonResp(code, "json", d)]
    /\ invCount = 0
    /\ initCount = 0
    /\ store_ok = TRUE

ClassifyStep ==
    /\ inv.path = "answer"
    /\ inv' = [inv EXCEPT !.path = "classified",
                          !.verdict = _run_api_sign(inv.resp, FALSE, Raise)]
    /\ UNCHANGED <<cookie, notify, history_days, max_retries, retry_count,
                   scheduled_retry, scheduler, jobs, has_scraper, has_curl, proxy,
                   sign_history, last_sign_date, last_attendance_record, now, tz,
                   invCount, initCount, store_ok>>

NextClassify == ClassifyStep

SpecClassify == InitClassify /\ [][NextClassify]_vars

-----------------------------------------------------------------------------
(* The non-JSON branch on its own: Init draws a sign-in answer that is not  *)
(* JSON, the length of its text, whether there is a scraper, whether the   *)
(* warm-up GET succeeds and what the POST after it answers; the one step   *)
(* hands them to _run_api_sign.                                            *)

\* the phrases lines 516-522 look for: the four of line 516, the
\* already-completed phrase, "Cannot GET /api/attendance", and the
\* login / registration markers
TextPhrases ==
    {"jitui", "qiandao_chenggong", "qiandao_wancheng", "success", "already",
     "cannot_get", "login"}

TextLengths == {0, 400, 401}

RetryAnswers ==
    { Raise,
      JsonResp(200, "json", MkData("true", Text({}), NoVal, 5, 120)),
      JsonResp(200, "json", MkData("false", Text({"already"}), NoVal, NoVal, NoVal)),
      JsonResp(200, "json", MkData("absent", UserNotFound, NoVal, NoVal, NoVal)),
      JsonResp(200, "json", MkData("false", Text({"jitui"}), NoVal, NoVal, NoVal)),
      JsonResp(200, "json", MkData("false", Text({}), NoVal, NoVal, NoVal)),
      JsonResp(200, "other", MkData("true", Text({}), NoVal, 5, 120)),
      TextResp(403, "html", {"login"}) }

InitText ==
    /\ cookie = TRUE
    /\ notify = FALSE
    /\ history_days = DefaultHistoryDays
    /\ max_retries = DefaultMaxRetries
    /\ retry_count = 0
    /\ scheduled_retry = NoJob
    /\ scheduler = "none"
    /\ jobs = {}
    /\ has_scraper \in BOOLEAN
    /\ has_curl = FALSE
    /\ proxy = FALSE
    /\ sign_history = <<>>
    /\ last_sign_date = NoTime
    /\ last_attendance_record = EmptyRecord
    /\ now = StartClock
    /\ tz = 0
    /\ \E text \in SUBSET TextPhrases, code \in {200, 403}, len \in TextLengths,
          warmGetOk \in BOOLEAN, retry \in RetryAnswers :
          inv = [path |-> "text", resp |-> TextResp(code, "other", text), len |-> len,
                 warmGetOk |-> warmGetOk, retry |-> retry, verdict |-> NewResult,
                 steps |-> <<>>, snippet |-> 0]
    /\ invCount = 0
    /\ initCount = 0
    /\ store_ok = TRUE

TextStep ==
    /\ inv.path = "text"
    /\ inv' = [inv EXCEPT !.path = "text_done",
                          !.verdict = _run_api_sign(inv.resp, inv.warmGetOk, inv.retry),
                          !.steps = _run_api_sign_steps(inv.resp, inv.warmGetOk, inv.retry),
                          !.snippet = SnippetLength(inv.len)]
    /\ UNCHANGED <<cookie, notify, history_days, max_retries, retry_count,
                   scheduled_retry, scheduler, jobs, has_scraper, has_curl, proxy,
                   sign_history, last_sign_date, last_attendance_record, now, tz,
                   invCount, initCount, store_ok>>

NextText == TextStep

SpecText == InitText /\ [][NextText]_vars

-----------------------------------------------------------------------------
(* The transport chains on their own: Init draws what each adapter answers *)
(* and which adapters are available, one step runs one chain.              *)

\* the answer of one adapter call, marked with the adapter that gave it
From(adapter, kind, status, ct) ==
    [kind |-> kind, status |-> status, ct |-> ct, isjson |-> ct = "json",
     data |-> NoData, text |-> {}, by |-> adapter]

AdapterAnswers(adapter) ==
    { From(adapter, "raise", 0, "none"),
      From(adapter, "resp", 200, "json"),
      From(adapter, "resp", 200, "html"),
      From(adapter, "resp", 403, "html"),
      From(adapter, "resp", 400, "json") }

NoCall == [fn |-> "none", out |-> Raise, calls |-> <<>>, proxied |-> <<>>]

InitChain ==
    /\ cookie = TRUE
    /\ notify = FALSE
    /\ history_days = DefaultHistoryDays
    /\ max_retries = DefaultMaxRetries
    /\ retry_count = 0
    /\ scheduled_retry = NoJob
    /\ scheduler = "none"
    /\ jobs = {}
    /\ has_scraper \in BOOLEAN
    /\ has_curl \in BOOLEAN
    /\ proxy \in BOOLEAN
    /\ sign_history = <<>>
    /\ last_sign_date = NoTime
    /\ last_attendance_record = EmptyRecord
    /\ now = StartClock
    /\ tz = 0
    /\ \E a \in AdapterAnswers("A"), b \in AdapterAnswers("B"),
          b2 \in AdapterAnswers("B2"), p \in AdapterAnswers("plain") :
          inv = [path |-> "chain", a |-> a, b |-> b, b2 |-> b2, p |-> p, call |-> NoCall]
    /\ invCount = 0
    /\ initCount = 0
    /\ store_ok = TRUE

ChainDone(fn, out, calls, proxied) ==
    /\ inv.call = NoCall
    /\ inv' = [inv EXCEPT !.call = [fn |-> fn, out |-> out, calls |-> calls,
                                    proxied |-> proxied]]
    /\ UNCHANGED <<cookie, notify, history_days, max_retries, retry_count,
                   scheduled_retry, scheduler, jobs, has_scraper, has_curl, proxy,
                   sign_history, last_sign_date, last_attendance_record, now, tz,
                   invCount, initCount, store_ok>>

PluginPost ==
    ChainDone("_smart_post", _smart_post(inv.a, inv.b, inv.b2, inv.p, proxy),
              _smart_calls(inv.a, inv.b, inv.b2, inv.p, proxy),
              _smart_proxied(inv.a, inv.b, inv.b2, inv.p, proxy))

PluginGet ==
    ChainDone("_smart_get", _smart_get(inv.a, inv.b, inv.b2, inv.p, proxy),
              _smart_calls(inv.a, inv.b, inv.b2, inv.p, proxy),
              _smart_proxied(inv.a, inv.b, inv.b2, inv.p, proxy))

HelperGet ==
    ChainDone("smart_get", smart_get(inv.a, inv.b, inv.p),
              smart_calls(inv.a, inv.b, inv.p),
              smart_proxied(inv.a, inv.b, inv.p))

HelperPost ==
    ChainDone("smart_post", smart_post(inv.a, inv.b, inv.p),
              smart_calls(inv.a, inv.b, inv.p),
              smart_proxied(inv.a, inv.b, inv.p))

NextChain == PluginPost \/ PluginGet \/ HelperGet \/ HelperPost

SpecChain == InitChain /\ [][NextChain]_vars

-----------------------------------------------------------------------------
(* The scraper session over several chain calls: proxy is what             *)
(* _get_proxies returns for the call (settings.PROXY is read at every      *)
(* call, lines 554-570), and the host's proxy setting can change between   *)
(* two calls.                                                              *)

InitSession ==
    /\ cookie = TRUE
    /\ notify = FALSE
    /\ history_days = DefaultHistoryDays
    /\ max_retries = DefaultMaxRetries
    /\ retry_count = 0
    /\ scheduled_retry = NoJob
    /\ scheduler = "none"
    /\ jobs = {}
    /\ has_scraper \in BOOLEAN
    /\ has_curl \in BOOLEAN
    /\ proxy \in BOOLEAN
    /\ sign_history = <<>>
    /\ last_sign_date = NoTime
    /\ last_attendance_record = EmptyRecord
    /\ now = StartClock
    /\ tz = 0
    /\ inv = [path |-> "session", scraper_proxies |-> has_scraper /\ proxy,
              earlier |-> FALSE, proxies |-> FALSE, call |-> NoCall]
    /\ invCount = 0
    /\ initCount = 0
    /\ store_ok = TRUE

SessionUnchanged ==
    UNCHANGED <<cookie, notify, history_days, max_retries, retry_count,
                scheduled_retry, scheduler, jobs, has_scraper, has_curl,
                sign_history, last_sign_date, last_attendance_record, now, tz,
                invCount, initCount, store_ok>>

\* the host's proxy setting is set or taken away
SettingsChange ==
    /\ inv.path = "session"
    /\ proxy' = ~proxy
    /\ UNCHANGED inv
    /\ SessionUnchanged

\* one call of _smart_post or _smart_get with proxies = self._get_proxies()
SessionCall ==
    /\ inv.path = "session"
    /\ \E fn \in {"_smart_post", "_smart_get"},
          a \in AdapterAnswers("A"), b \in AdapterAnswers("B"),
          b2 \in AdapterAnswers("B2"), p \in AdapterAnswers("plain") :
          inv' = [inv EXCEPT
                    !.scraper_proxies = IF has_scraper THEN _scraper_proxies(proxy, @)
                                        ELSE @,
                    !.earlier = inv.call # NoCall /\ (inv.proxies \/ @),
                    !.proxies = proxy,
                    !.call = [fn |-> fn,
                              out |-> IF fn = "_smart_post"
                                        THEN _smart_post(a, b, b2, p, proxy)
                                        ELSE _smart_get(a, b, b2, p, proxy),
                              calls |-> _smart_calls(a, b, b2, p, proxy),
                              proxied |-> _smart_sent(a, b, b2, p, proxy,
                                                      inv.scraper_proxies)]]
    /\ UNCHANGED proxy
    /\ SessionUnchanged

NextSession == SettingsChange \/ SessionCall

SpecSession == InitSession /\ [][NextSession]_vars

-----------------------------------------------------------------------------
(* _normalize_proxies (lines 572-590) and CloudFlareBypassHelper's          *)
(* _normalize_proxies (cf_bypass_helper.py, lines 225-253).  A proxy input *)
(* is None, a string, a mapping, or a value of another type; a mapping is  *)
(* given by what it holds under the keys http, HTTP, https, HTTPS: "absent"*)
(* for no such key, "None" or "" for a falsy value, else a URL; extra     *)
(* says that it also holds keys of another spelling, which are never read. *)

ProxyKeys == {"http", "HTTP", "https", "HTTPS"}
ProxyUrls == {"u1", "u2"}
ProxyValues == {"absent", "None", ""} \cup ProxyUrls

ProxyInputs ==
    { [kind |-> "none"], [kind |-> "other"] }
    \cup { [kind |-> "str", url |-> u] : u \in ProxyUrls \cup {""} }
    \cup { [kind |-> "dict", at |-> d, extra |-> x] :
                d \in [ProxyKeys -> ProxyValues], x \in BOOLEAN }

NoProxies == [kind |-> "none"]

Truthy(v) == v \in ProxyUrls

\* proxies_input.get(key)
DictGet(d, key) == IF d[key] = "absent" THEN "None" ELSE d[key]

\* x or y
Or(x, y) == IF Truthy(x) THEN x ELSE y

\* not proxies_input
Falsy(input) ==
    \/ input.kind = "none"
    \/ input.kind = "str" /\ input.url = ""
    \/ /\ input.kind = "dict"
       /\ ~input.extra
       /\ \A k \in ProxyKeys : input.at[k] = "absent"

\* NormalizeMapping without the fall-back to the other scheme
NormalizeMappingOwnScheme(d) ==
    LET http_url == Or(DictGet(d, "http"), DictGet(d, "HTTP"))
        https_url == Or(DictGet(d, "https"), DictGet(d, "HTTPS"))
    IN IF ~Truthy(http_url) /\ ~Truthy(https_url) THEN NoProxies
       ELSE [kind |-> "map", http |-> http_url, https |-> https_url]

\* lines 583-587
NormalizeMapping(d) ==
    LET http_url == Or(Or(Or(DictGet(d, "http"), DictGet(d, "HTTP")),
                          DictGet(d, "https")), DictGet(d, "HTTPS"))
        https_url == Or(Or(Or(DictGet(d, "https"), DictGet(d, "HTTPS")),
                           DictGet(d, "http")), DictGet(d, "HTTP"))
    IN IF ~Truthy(http_url) /\ ~Truthy(https_url) THEN NoProxies
       ELSE [kind |-> "map", http |-> Or(http_url, https_url),
                             https |-> Or(https_url, http_url)]

_normalize_proxies(proxies_input) ==
    IF Falsy(proxies_input) THEN NoProxies
    ELSE IF proxies_input.kind = "str"
        THEN [kind |-> "map", http |-> proxies_input.url, https |-> proxies_input.url]
    ELSE IF proxies_input.kind = "dict" THEN NormalizeMapping(proxies_input.at)
    ELSE NoProxies

\* the helper's static method: the same steps without the try/except
helper_normalize_proxies(proxies_input) ==
    IF Falsy(proxies_input) THEN NoProxies
    ELSE IF proxies_input.kind = "str"
        THEN [kind |-> "map", http |-> proxies_input.url, https |-> proxies_input.url]
    ELSE IF proxies_input.kind = "dict" THEN NormalizeMapping(proxies_input.at)
    ELSE NoProxies

InitProxies ==
    /\ cookie = TRUE
    /\ notify = FALSE
    /\ history_days = DefaultHistoryDays
    /\ max_retries = DefaultMaxRetries
    /\ retry_count = 0
    /\ scheduled_retry = NoJob
    /\ scheduler = "none"
    /\ jobs = {}
    /\ has_scraper = FALSE
    /\ has_curl = FALSE
    /\ proxy = FALSE
    /\ sign_history = <<>>
    /\ last_sign_date = NoTime
    /\ last_attendance_record = EmptyRecord
    /\ now = StartClock
    /\ tz = 0
    /\ \E input \in ProxyInputs :
          inv = [path |-> "proxies", input |-> input, fn |-> "none", out |-> NoProxies]
    /\ invCount = 0
    /\ initCount = 0
    /\ store_ok = TRUE

Normalized(fn, out) ==
    /\ inv.fn = "none"
    /\ inv' = [inv EXCEPT !.fn = fn, !.out = out]
    /\ UNCHANGED <<cookie, notify, history_days, max_retries, retry_count,
                   scheduled_retry, scheduler, jobs, has_scraper, has_curl, proxy,
                   sign_history, last_sign_date, last_attendance_record, now, tz,
                   invCount, initCount, store_ok>>

PluginNormalize == Normalized("plugin", _normalize_proxies(inv.input))

HelperNormalize == Normalized("helper", helper_normalize_proxies(inv.input))

NextProxies == PluginNormalize \/ HelperNormalize

SpecProxies == InitProxies /\ [][NextProxies]_vars

-----------------------------------------------------------------------------
(* init_plugin's reading of the numeric fields (lines 95-136, 215-216).  A *)
(* raw value is absent from the config, an integer, a string of digits, a  *)
(* string that is no number, null, a list, or the float infinity that a    *)
(* JSON number such as 1e999 parses to; member_id is a string or a number. *)

DefaultMinDelay == 5
DefaultMaxDelay == 12
DefaultStatsDays == 30
Configured == 7

NumericFields == {"history_days", "max_retries", "min_delay", "max_delay", "stats_days"}

Defaults ==
    [history_days |-> DefaultHistoryDays, max_retries |-> DefaultMaxRetries,
     min_delay |-> DefaultMinDelay, max_delay |-> DefaultMaxDelay,
     stats_days |-> DefaultStatsDays]

Absent == [kind |-> "absent"]
Whole(n) == [kind |-> "int", n |-> n]
RawValues ==
    { Absent, Whole(Configured), [kind |-> "digits", n |-> Configured],
      [kind |-> "text"], [kind |-> "null"], [kind |-> "list"], [kind |-> "inf"] }

\* int(value)
int(value) ==
    CASE value.kind \in {"int", "digits"} -> [kind |-> "ok", n |-> value.n]
      [] value.kind = "text" -> [kind |-> "raise", error |-> "ValueError"]
      [] value.kind \in {"null", "list"} -> [kind |-> "raise", error |-> "TypeError"]
      [] value.kind = "inf" -> [kind |-> "raise", error |-> "OverflowError"]

\* except (ValueError, TypeError)
Caught == {"ValueError", "TypeError"}

\* int(config.get(key, default))
Convert(raw, key) == int(IF raw[key] = Absent THEN Whole(Defaults[key]) ELSE raw[key])

\* the conversion raises past the field's own handler
Raises(raw, key) ==
    Convert(raw, key).kind = "raise" /\ Convert(raw, key).error \notin Caught

\* try: self._x = int(config.get(key, default)) except (ValueError, TypeError): self._x = default
Parsed(raw, key) ==
    IF Convert(raw, key).kind = "ok" THEN Convert(raw, key).n ELSE Defaults[key]

\* lines 104-136 in order; an exception past a field's handler, or .strip()
\* on a member_id that is a number (line 131), ends in the handler of
\* lines 215-216 and leaves the fields after it as they were
LoadNumbers(prev, raw) ==
    LET stop1 == Raises(raw, "history_days")
        stop2 == stop1 \/ Raises(raw, "max_retries")
        stop3 == stop2 \/ Raises(raw, "min_delay")
        stop4 == stop3 \/ Raises(raw, "max_delay")
        stop5 == stop4 \/ raw.member_id = "number"
        stop6 == stop5 \/ Raises(raw, "stats_days")
        Set(stop, key) == IF stop THEN prev[key] ELSE Parsed(raw, key)
    IN [numbers |-> [history_days |-> Set(stop1, "history_days"),
                     max_retries |-> Set(stop2, "max_retries"),
                     min_delay |-> Set(stop3, "min_delay"),
                     max_delay |-> Set(stop4, "max_delay"),
                     stats_days |-> Set(stop6, "stats_days")],
        failed |-> stop6]

\* one field holds any raw value, the others are all absent or all set
RawConfigs ==
    { [k \in NumericFields \cup {"member_id"} |->
          IF k = "member_id" THEN m ELSE IF k = f THEN r ELSE rest] :
        f \in NumericFields, r \in RawValues,
        rest \in {Absent, Whole(Configured)}, m \in {"str", "number"} }

NoRaw == [k \in NumericFields \cup {"member_id"} |-> IF k = "member_id" THEN "str" ELSE Absent]

\* what the store holds from earlier runs when the plugin is constructed
StoredHistories ==
    { <<>>, << [NoEntry EXCEPT !.inv = 1, !.date = StartClock - 100,
                               !.status = "Success", !.gain = 5] >> }

\* the flags of the configs handed to init_plugin, one of them with
\* clear_history set and run-once off
LoadConfigs == Configs \cup { Config(TRUE, FALSE, 2, 2, FALSE, TRUE) }

InitConfig ==
    /\ cookie = FALSE
    /\ notify = FALSE
    /\ history_days = DefaultHistoryDays
    /\ max_retries = DefaultMaxRetries
    /\ retry_count = 0
    /\ scheduled_retry = NoJob
    /\ scheduler = "none"
    /\ jobs = {}
    /\ has_scraper = FALSE
    /\ has_curl = FALSE
    /\ proxy = TRUE
    /\ \E h \in StoredHistories :
          /\ sign_history = h
          /\ last_sign_date = (IF h = <<>> THEN NoTime ELSE h[Len(h)].date)
    /\ last_attendance_record = EmptyRecord
    /\ now = StartClock
    /\ tz = 0
    /\ inv = [path |-> "config", loaded |-> FALSE, raw |-> NoRaw, numbers |-> Defaults,
              failed |-> FALSE, escaped |-> FALSE,
              cfg |-> Config(FALSE, FALSE, DefaultHistoryDays, DefaultMaxRetries,
                             FALSE, FALSE),
              stored_clear |-> FALSE]
    /\ invCount = 0
    /\ initCount = 0
    /\ store_ok = TRUE

MaxLoads == 2

\* init_plugin(config) with raw numeric fields (lines 90-216)
init_plugin_raw ==
    /\ initCount < MaxLoads
    /\ initCount' = initCount + 1
    /\ \E cfg \in LoadConfigs, raw \in RawConfigs :
          LET r == LoadNumbers(inv.numbers, raw)
              once == cfg.onlyonce /\ ~r.failed
          IN /\ inv' = [inv EXCEPT !.loaded = TRUE, !.raw = raw, !.numbers = r.numbers,
                                   !.failed = r.failed, !.escaped = FALSE,
                                   !.cfg = cfg,
                                   !.stored_clear = cfg.clear_history /\ ~once]
             /\ cookie' = cfg.cookie
             /\ notify' = cfg.notify
             /\ history_days' = r.numbers.history_days
             /\ max_retries' = r.numbers.max_retries
             /\ has_scraper' = (IF r.failed THEN has_scraper ELSE TRUE)
             /\ IF once
                   THEN /\ scheduler' = "running"
                        /\ jobs' = {[id |-> -(initCount + 1), kind |-> "once"]}
                   ELSE /\ scheduler' = "none"
                        /\ jobs' = {}
             /\ IF once /\ cfg.clear_history
                   THEN /\ sign_history' = <<>>
                        /\ last_sign_date' = NoTime
                        /\ last_attendance_record' = EmptyRecord
                   ELSE UNCHANGED <<sign_history, last_sign_date, last_attendance_record>>
    /\ UNCHANGED <<retry_count, scheduled_retry, has_curl, proxy, now, tz,
                   invCount, store_ok>>

NextConfig == init_plugin_raw

SpecConfig == InitConfig /\ [][NextConfig]_vars

-----------------------------------------------------------------------------
(* _get_signin_stats (lines 1872-1954).  A credit-ledger row is its amount, *)
(* whether its description holds both reward words, and its timestamp as   *)
(* an instant (BadTime when it cannot be read).  The answer to a page      *)
(* request is an exception of the adapter chain, a body that is not JSON,  *)
(* a JSON body reporting failure, one with no rows, or one with rows.      *)

MaxPages == 20
FreePages == 2

Row(amount, reward, t) == [amount |-> amount, reward |-> reward, t |-> t]

\* ages of the rows in minutes: within a day, within two days, older
RowKinds ==
    { Row(1, TRUE, now - 100), Row(2, TRUE, now - 2000), Row(4, FALSE, now - 100),
      Row(2, TRUE, now - 5000), Row(1, TRUE, BadTime), Row(4, FALSE, now - 5000) }

Rows(rows) == [kind |-> "rows", rows |-> rows]
StopAnswers == { [kind |-> "raise"], [kind |-> "nonjson"], [kind |-> "fail"],
                 [kind |-> "empty"] }

RowPages == { Rows(<<r>>) : r \in RowKinds } \cup { Rows(<<r, q>>) : r, q \in RowKinds }

\* a server of mode "short" has FreePages pages of any content and then
\* ends; one of mode "long" serves the same one-row page for ever
Filler == Rows(<<Row(1, TRUE, now - 100)>>)
PageAnswers(mode, page) ==
    IF mode = "long" THEN {Filler} \cup (IF page > FreePages THEN {[kind |-> "empty"]} ELSE {})
    ELSE IF page <= FreePages THEN RowPages \cup StopAnswers
    ELSE StopAnswers \cup {Rows(<<Row(2, TRUE, now - 5000)>>)}

\* days <= 0 becomes 1 (lines 1875-1876)
EffectiveDays(days) == IF days <= 0 THEN 1 ELSE days

\* query_start_time (line 1885)
QueryStart(days) == now - EffectiveDays(days) * MinutesPerDay

Readable(row) == row.t # BadTime
InWindow(row, days) == Readable(row) /\ row.t >= QueryStart(days)

\* the loop goes on to the next page whatever the answer
ContinuesAlways(answer, days) == TRUE

\* the loop goes on to the next page (lines 1894-1918): the body is JSON,
\* reports success, has rows, and its last row is readable and not older
\* than the window start
Continues(answer, days) ==
    /\ answer.kind = "rows"
    /\ InWindow(answer.rows[Len(answer.rows)], days)

\* the rows one page adds to all_records (lines 1903-1917)
Collected(answer, days) ==
    IF answer.kind # "rows" THEN <<>>
    ELSE LET last == answer.rows[Len(answer.rows)]
         IN IF ~Readable(last) THEN <<>>
            ELSE IF last.t < QueryStart(days)
                THEN SelectSeq(answer.rows, LAMBDA r : InWindow(r, days))
            ELSE answer.rows

RECURSIVE Sum(_)
Sum(amounts) == IF amounts = <<>> THEN 0 ELSE Head(amounts) + Sum(Tail(amounts))

\* the average cut off after two decimals
AverageCut(total, count) == IF count = 0 THEN 0 ELSE (total * 100) \div count

\* round(total_amount / days_count, 2) in hundredths, ties to the even one
Average(total, count) ==
    IF count = 0 THEN 0
    ELSE LET q == (total * 100) \div count
             r == (total * 100) % count
         IN IF 2 * r < count THEN q
            ELSE IF 2 * r > count THEN q + 1
            ELSE IF q % 2 = 0 THEN q ELSE q + 1

Period(days) == IF EffectiveDays(days) # 1 THEN "days" ELSE "today"

NoStats == [kind |-> "empty"]
Stats(amounts, source, days) ==
    [kind |-> "stats", total_amount |-> Sum(amounts),
     average |-> Average(Sum(amounts), Len(amounts)), days_count |-> Len(amounts),
     records |-> amounts, source |-> IF amounts = <<>> THEN "none" ELSE source,
     period |-> Period(days)]

\* success_statuses (line 1934): the two statuses of the success branch and
\* two that sign() never writes
success_statuses ==
    {"Success", "AlreadySigned", "SuccessTimeVerified", "AlreadyFromRecord"}

\* the instant of a ledger date, which was written as local time (line 1938)
Instant(date) == date - tz

\* lines 1936-1942
Fallback(history, days) ==
    SelectSeq(history, LAMBDA rec :
        /\ rec.date \notin {NoTime, BadTime}
        /\ Instant(rec.date) >= QueryStart(days)
        /\ rec.status \in success_statuses
        /\ rec.gain # 0)

Gains(entries) == [k \in 1..Len(entries) |-> entries[k].gain]
Amounts(rows) == [k \in 1..Len(rows) |-> rows[k].amount]

\* lines 1921-1954
Tally(all_records, history, days) ==
    LET signin_records == SelectSeq(all_records,
                                    LAMBDA r : InWindow(r, days) /\ r.reward)
    IN IF signin_records # <<>> THEN Stats(Amounts(signin_records), "remote", days)
       ELSE IF store_ok THEN Stats(Gains(Fallback(history, days)), "local", days)
       ELSE Stats(<<>>, "none", days)

StatsLedgers ==
    { <<>>,
      << [NoEntry EXCEPT !.inv = 1, !.date = StartClock - 100, !.status = "Success",
                         !.gain = 5] >>,
      << [NoEntry EXCEPT !.inv = 1, !.date = StartClock - 200,
                         !.status = "AlreadyByRecord", !.gain = 3],
         [NoEntry EXCEPT !.inv = 2, !.date = StartClock - 100, !.status = "Failed"] >>,
      << [NoEntry EXCEPT !.inv = 1, !.date = StartClock - 5000, !.status = "Success",
                         !.gain = 5],
         [NoEntry EXCEPT !.inv = 2, !.date = StartClock - 2000,
                         !.status = "AlreadySigned", !.gain = 2],
         [NoEntry EXCEPT !.inv = 3, !.date = StartClock - 100, !.status = "Success"],
         [NoEntry EXCEPT !.inv = 4, !.date = StartClock - 50, !.status = "Success",
                         !.gain = 1] >> }

StatsDays == {0, 2}

InitStats ==
    /\ cookie \in BOOLEAN
    /\ notify = FALSE
    /\ history_days = DefaultHistoryDays
    /\ max_retries = DefaultMaxRetries
    /\ retry_count = 0
    /\ scheduled_retry = NoJob
    /\ scheduler = "none"
    /\ jobs = {}
    /\ has_scraper = FALSE
    /\ has_curl = FALSE
    /\ proxy = FALSE
    /\ sign_history \in StatsLedgers
    /\ last_sign_date = NoTime
    /\ last_attendance_record = EmptyRecord
    /\ now = StartClock
    /\ tz = 0
    /\ \E days \in StatsDays, mode \in {"short", "long"} :
          inv = [path |-> "stats", pc |-> "call", mode |-> mode, days |-> days,
                 page |-> 1, asked |-> <<>>, answers |-> <<>>, all_records |-> <<>>,
                 out |-> NoStats]
    /\ invCount = 0
    /\ initCount = 0
    /\ store_ok = TRUE

StatsUnchanged ==
    UNCHANGED <<cookie, notify, history_days, max_retries, retry_count,
                scheduled_retry, scheduler, jobs, has_scraper, has_curl, proxy,
                sign_history, last_sign_date, last_attendance_record, now, tz,
                invCount, initCount, store_ok>>

\* lines 1873-1888
StatsEnter ==
    /\ inv.pc = "call"
    /\ inv' = IF cookie THEN [inv EXCEPT !.pc = "loop"] ELSE [inv EXCEPT !.pc = "done"]
    /\ StatsUnchanged

\* one turn of the loop of lines 1890-1918
StatsPage ==
    /\ inv.pc = "loop"
    /\ inv.page <= MaxPages
    /\ \E answer \in PageAnswers(inv.mode, inv.page) :
          inv' = [inv EXCEPT !.asked = Append(@, inv.page),
                             !.answers = Append(@, answer),
                             !.all_records = @ \o Collected(answer, inv.days),
                             !.page = IF Continues(answer, inv.days) THEN @ + 1 ELSE @,
                             !.pc = IF Continues(answer, inv.days) /\ inv.page < MaxPages
                                       THEN "loop" ELSE "tally"]
    /\ StatsUnchanged

\* lines 1921-1954
StatsReturn ==
    /\ inv.pc = "tally"
    /\ inv' = [inv EXCEPT !.pc = "done",
                          !.out = Tally(inv.all_records, sign_history, inv.days)]
    /\ StatsUnchanged

NextStats == StatsEnter \/ StatsPage \/ StatsReturn

SpecStats == InitStats /\ [][NextStats]_vars

-----------------------------------------------------------------------------
(* The wait before the sign-in call: sign() up to the POSTs of              *)
(* _run_api_sign (lines 224-247, 457), with _wait_random_interval (lines   *)
(* 591-607).  min_delay and max_delay are the integers init_plugin stored; *)
(* a wait is its length in whole seconds.  events lists the waits and the  *)
(* POSTs of the invocation in the order they happen.                       *)

DelayValues == {-1, 0, DefaultMinDelay, DefaultMinDelay + 1}

\* _wait_random_interval (lines 591-607) as the events it can leave: one
\* wait of a length between the two values, or none when the wait is
\* skipped (line 600)
_wait_random_interval(min_delay, max_delay) ==
    IF max_delay >= min_delay /\ min_delay > 0
        THEN { <<[kind |-> "wait", d |-> d]>> : d \in min_delay..max_delay }
    ELSE { <<>> }

\* the POSTs of _smart_post as events
PostEvents(calls) == [k \in DOMAIN calls |-> [kind |-> "post", by |-> calls[k]]]

ChainAnswers(adapter) ==
    { From(adapter, "raise", 0, "none"), From(adapter, "resp", 200, "json"),
      From(adapter, "resp", 403, "html") }

InitWait ==
    /\ cookie \in BOOLEAN
    /\ notify = FALSE
    /\ history_days = DefaultHistoryDays
    /\ max_retries = DefaultMaxRetries
    /\ retry_count = 0
    /\ scheduled_retry = NoJob
    /\ scheduler = "none"
    /\ jobs = {}
    /\ has_scraper \in BOOLEAN
    /\ has_curl \in BOOLEAN
    /\ proxy = TRUE
    /\ sign_history = <<>>
    /\ last_sign_date = NoTime
    /\ last_attendance_record = EmptyRecord
    /\ now = StartClock
    /\ tz = 0
    /\ \E lo \in DelayValues, hi \in DelayValues :
          inv = [path |-> "wait", pc |-> "start", min_delay |-> lo, max_delay |-> hi,
                 events |-> <<>>]
    /\ invCount = 0
    /\ initCount = 0
    /\ store_ok = TRUE

WaitUnchanged ==
    UNCHANGED <<cookie, notify, history_days, max_retries, retry_count,
                scheduled_retry, scheduler, jobs, has_scraper, has_curl, proxy,
                sign_history, last_sign_date, last_attendance_record, now, tz,
                invCount, initCount, store_ok>>

\* lines 224-244: return without a cookie, else _wait_random_interval
SignWait ==
    /\ inv.pc = "start"
    /\ IF ~cookie THEN inv' = [inv EXCEPT !.pc = "done"]
       ELSE \E waited \in _wait_random_interval(inv.min_delay, inv.max_delay) :
               inv' = [inv EXCEPT !.pc = "waited", !.events = waited]
    /\ WaitUnchanged

\* line 247, 457: the POSTs of the adapter chain
SignPost ==
    /\ inv.pc = "waited"
    /\ \E a \in ChainAnswers("A"), b \in ChainAnswers("B"), b2 \in ChainAnswers("B2"),
          p \in ChainAnswers("plain") :
          inv' = [inv EXCEPT !.pc = "done",
                             !.events = @ \o PostEvents(_smart_calls(a, b, b2, p, proxy))]
    /\ WaitUnchanged

NextWait == SignWait \/ SignPost

SpecWait == InitWait /\ [][NextWait]_vars

-----------------------------------------------------------------------------
(* The ledger on its own: Init draws a persisted history and a retention,  *)
(* one step saves one more sign_dict.                                      *)

MaxLedger == 3

\* ages, in minutes, of the persisted entries: 0, 0, 1, 2 and 3 whole days
LedgerAges == {0, 1000, 1500, 3000, 4400}

LedgerDates == {StartClock - a : a \in LedgerAges} \cup {BadTime}

Ledgers ==
    UNION { [1..n -> LedgerDates] : n \in 0..MaxLedger }

\* the persisted list whose k-th entry has the k-th date
Persisted(dates) ==
    [k \in 1..Len(dates) |-> [inv |-> k, date |-> dates[k], status |-> "Success",
                              gain |-> 0, rank |-> 0, total |-> 0]]

InitLedger ==
    /\ cookie = TRUE
    /\ notify = FALSE
    /\ history_days \in 0..2
    /\ max_retries = DefaultMaxRetries
    /\ retry_count = 0
    /\ scheduled_retry = NoJob
    /\ scheduler = "none"
    /\ jobs = {}
    /\ has_scraper = FALSE
    /\ has_curl = FALSE
    /\ proxy = FALSE
    /\ \E dates \in Ledgers :
          /\ sign_history = Persisted(dates)
          /\ inv = [path |-> "ledger", before |-> Persisted(dates), entry |-> NoEntry]
    /\ last_sign_date = NoTime
    /\ last_attendance_record = EmptyRecord
    /\ now = StartClock
    /\ tz = 0
    /\ invCount = 0
    /\ initCount = 0
    /\ store_ok = TRUE

SaveStep ==
    /\ inv.entry = NoEntry
    /\ LET e == NewEntry(Len(sign_history) + 1, "Failed")
       IN /\ sign_history' = _save_sign_history(sign_history, e)
          /\ inv' = [inv EXCEPT !.entry = e]
    /\ UNCHANGED <<cookie, notify, history_days, max_retries, retry_count,
                   scheduled_retry, scheduler, jobs, has_scraper, has_curl, proxy,
                   last_sign_date, last_attendance_record, now, tz,
                   invCount, initCount, store_ok>>

NextLedger == SaveStep

SpecLedger == InitLedger /\ [][NextLedger]_vars

-----------------------------------------------------------------------------
(* Two calls of sign() at once: the host's cron trigger and a job of the   *)
(* plugin's own BackgroundScheduler run on different threads, and          *)
(* _save_sign_history takes no lock.  Each worker reads the persisted list *)
(* (line 878), appends and prunes its own copy (lines 886-921) and writes  *)
(* it back (line 926); the two workers' steps interleave in any order.     *)

Workers == {1, 2}

\* the sign_dict of worker w
WorkerEntry(w) == NewEntry(MaxLedger + w, "Failed")

InitOverlap ==
    /\ cookie = TRUE
    /\ notify = FALSE
    /\ history_days \in 1..2
    /\ max_retries = DefaultMaxRetries
    /\ retry_count = 0
    /\ scheduled_retry = NoJob
    /\ scheduler = "none"
    /\ jobs = {}
    /\ has_scraper = FALSE
    /\ has_curl = FALSE
    /\ proxy = FALSE
    /\ \E dates \in Ledgers :
          /\ sign_history = Persisted(dates)
          /\ inv = [path |-> "overlap", before |-> Persisted(dates),
                    pc |-> [w \in Workers |-> "called"],
                    history |-> [w \in Workers |-> <<>>],
                    overlapped |-> FALSE]
    /\ last_sign_date = NoTime
    /\ last_attendance_record = EmptyRecord
    /\ now = StartClock
    /\ tz = 0
    /\ invCount = 0
    /\ initCount = 0
    /\ store_ok = TRUE

OverlapUnchanged ==
    UNCHANGED <<cookie, notify, history_days, max_retries, retry_count,
                scheduled_retry, scheduler, jobs, has_scraper, has_curl, proxy,
                last_sign_date, last_attendance_record, now, tz,
                invCount, initCount, store_ok>>

\* line 878: history = self.get_data('sign_history') or []
ReadHistory(w) ==
    /\ inv.pc[w] = "called"
    /\ inv' = [inv EXCEPT !.pc[w] = "read",
                          !.history[w] = sign_history,
                          !.overlapped = @ \/ \E v \in Workers : inv.pc[v] = "read"]
    /\ UNCHANGED sign_history
    /\ OverlapUnchanged

\* lines 886-926: append, prune, save_data(key="sign_history", ...)
WriteHistory(w) ==
    /\ inv.pc[w] = "read"
    /\ sign_history' = _save_sign_history(inv.history[w], WorkerEntry(w))
    /\ inv' = [inv EXCEPT !.pc[w] = "saved"]
    /\ OverlapUnchanged

NextOverlap == \E w \in Workers : ReadHistory(w) \/ WriteHistory(w)

SpecOverlap == InitOverlap /\ [][NextOverlap]_vars

-----------------------------------------------------------------------------
(* Properties *)

\* sign() has just returned
Ended == inv.id # 0

SuccessFamily == {"Success", "AlreadySigned", "AlreadyByRecord", "SuccessByTimeWindow"}

\* the ledger entries that belong to the call that has just returned
MyEntries == {i \in 1..Len(sign_history) : sign_history[i].inv = inv.id}

\* the status sign() determined: that of the first sign_dict it saved
FinalStatus == IF inv.saved = <<>> THEN "none" ELSE inv.saved[1].status

RetryJobs(js) == {j \in js : j.kind = "retry"}

Count(seq, x) == Cardinality({i \in 1..Len(seq) : seq[i] = x})

(* C1: every invocation of sign() leaves exactly one new entry of its own  *)
(* in the persisted ledger, whichever path it takes.                       *)
C1_ExactlyOneAppended == Ended => Cardinality(MyEntries) = 1

(* C2: at most one retry job is pending in every reachable state, and when *)
(* sign() schedules a retry the earlier retry job is gone and the pending  *)
(* retry job is exactly the new one.                                       *)
C2_AtMostOneRetryPending ==
    /\ Cardinality(RetryJobs(jobs)) <= 1
    /\ (Ended /\ inv.added # {}) =>
          /\ RetryJobs(jobs) = {[id |-> scheduled_retry, kind |-> "retry"]}
          /\ \A a \in inv.added : a.id = scheduled_retry
          /\ \A j \in RetryJobs(inv.jobs_before) : j.id # scheduled_retry => j \notin jobs

C2_Witness ==
    /\ Ended
    /\ inv.added # {}
    /\ \E j \in RetryJobs(inv.jobs_before) : j.id # scheduled_retry /\ j \in inv.removed

(* C3: an invocation whose recorded status is success-family schedules no  *)
(* retry job.                                                              *)
C3_NoRetryOnSuccess ==
    (Ended /\ FinalStatus \in SuccessFamily) => inv.added = {}

(* C4: after an invocation that ends with a success-family status the      *)
(* attempts-used counter is 0.                                             *)
C4_SuccessResetsRetryCount ==
    (Ended /\ FinalStatus \in SuccessFamily) => retry_count = 0

(* C5: an invocation that determines Failed with attempts-used below a      *)
(* positive max-attempts removes the previously scheduled retry, schedules *)
(* exactly one retry job, due 5 to 15 minutes from now, and adds one to    *)
(* attempts-used.                                                          *)
C5_FailedSchedulesRetry ==
    (Ended /\ FinalStatus = "Failed" /\ max_retries > 0
           /\ inv.retry_before < max_retries) =>
        /\ RetryJobs(inv.jobs_before) \subseteq inv.removed
        /\ Cardinality(inv.added) = 1
        /\ \A a \in inv.added :
              /\ a.run_date - LocalNow >= 5
              /\ a.run_date - LocalNow <= 15
              /\ RetryJobs(jobs) = {[id |-> a.id, kind |-> "retry"]}
        /\ retry_count = inv.retry_before + 1

C5_Witness ==
    /\ Ended
    /\ FinalStatus = "Failed"
    /\ inv.retry_before = 1
    /\ retry_count = 2
    /\ inv.removed # {}
    /\ \E a \in inv.added : a.run_date - LocalNow = 15

(* C6: an invocation that determines Failed with max-attempts 0 or with     *)
(* attempts-used at max-attempts schedules no retry, leaves attempts-used  *)
(* unchanged and, with notifications on, sends one final-failure message.  *)
C6_NoRetryWhenExhausted ==
    (Ended /\ FinalStatus = "Failed"
           /\ (max_retries = 0 \/ inv.retry_before >= max_retries)) =>
        /\ inv.added = {}
        /\ jobs = inv.jobs_before
        /\ retry_count = inv.retry_before
        /\ notify => Count(inv.notes, "final_failure") = 1

C6_Witness ==
    /\ Ended
    /\ FinalStatus = "Failed"
    /\ max_retries > 0
    /\ inv.retry_before >= max_retries
    /\ notify
    /\ inv.notes # <<>>

\* the server answered the sign-in call with the already-completed message
AlreadyAnswer(r) ==
    /\ r.kind = "resp"
    /\ r.isjson
    /\ r.data.success # "true"
    /\ Contains(r.data.msg, "already")
    /\ ~Contains(r.data.msg, "jitui")

(* C7: whenever the server answers the sign-in call with the already-       *)
(* completed message, sign() records one AlreadySigned attempt and         *)
(* schedules no retry, however many invocations came before.               *)
C7_AlreadySignedIdempotent ==
    (Ended /\ inv.path # "no_cookie" /\ AlreadyAnswer(inv.resp)) =>
        /\ Len(inv.saved) = 1
        /\ FinalStatus = "AlreadySigned"
        /\ inv.ret.status = "AlreadySigned"
        /\ inv.added = {}
        /\ jobs = inv.jobs_before

C7_Witness ==
    /\ Ended
    /\ inv.id = 2
    /\ AlreadyAnswer(inv.resp)
    /\ \E i \in 1..Len(sign_history) :
          sign_history[i].inv = 1 /\ sign_history[i].status \in {"Success", "AlreadySigned"}

\* the record's timestamp falls on today's date of the process-local timezone
OnLocalToday(record) ==
    /\ record.has
    /\ record.created \notin {NoTime, BadTime}
    /\ Day(record.created + tz) = Day(LocalNow)

(* C8: when every adapter answers the sign-in POST with a 403 block page    *)
(* and the fetched attendance record is dated today, the attempt written   *)
(* has the confirmed-via-record status instead of Failed.                  *)
C8_BlockedThenConfirmedByRecord ==
    (Ended /\ inv.all_blocked /\ OnLocalToday(inv.record)) =>
        FinalStatus = "AlreadyByRecord"

\* the sign-in answer is JSON with success = true and a non-zero gain
SuccessWithGain(r) ==
    /\ r.kind = "resp"
    /\ r.isjson
    /\ r.data.success = "true"
    /\ r.data.gain \notin {NoVal, 0}

(* C9: when the sign-in answer is JSON with success = true and gain g, the  *)
(* attempt sign() appends has status Success and reward g, whatever the    *)
(* attendance fetch returned.                                              *)
C9_RewardFromSignIn ==
    (Ended /\ inv.path # "no_cookie" /\ SuccessWithGain(inv.resp)) =>
        /\ FinalStatus = "Success"
        /\ inv.saved[1].gain = inv.resp.data.gain

-----------------------------------------------------------------------------
(* C10: the decision order for JSON bodies *)

Classified == inv.path = "classified"

Rule(i, data) ==
    CASE i = 1 -> data.success = "true"
      [] i = 2 -> Contains(data.msg, "jitui")
      [] i = 3 -> Contains(data.msg, "already")
      [] i = 4 -> data.msg = UserNotFound \/ data.status = 404
      [] i = 5 -> /\ Contains(data.msg, "qiandao")
                  /\ Contains(data.msg, "chenggong") \/ Contains(data.msg, "wancheng")
      [] OTHER -> TRUE

FirstRule(data) == CHOOSE i \in 1..6 : Rule(i, data) /\ \A k \in 1..(i - 1) : ~Rule(k, data)

IsSuccess(r) == r.success /\ ~r.already_signed
IsAlreadySigned(r) == r.success /\ r.already_signed
IsFailed(r) == ~r.success

Verdict(data, code, r) ==
    LET i == FirstRule(data) IN
    CASE i \in {1, 2, 5} -> IsSuccess(r) /\ r.message = data.msg
      [] i = 3 -> IsAlreadySigned(r) /\ r.message = data.msg
      [] i = 4 -> IsFailed(r) /\ r.message = Fixed("cookie_invalid")
      [] OTHER -> /\ IsFailed(r)
                  /\ r.message = IF IsEmpty(data.msg) THEN Coded("unknown_response", code)
                                 ELSE data.msg

\* reward and current are in the result whenever the body has them
CarriedWhenPresent(data, r) ==
    /\ data.gain # NoVal => r.gain = data.gain
    /\ data.current # NoVal => r.current = data.current

\* reward and current are in the result exactly when the reward is non-zero
CarriedWhenGain(data, r) ==
    IF data.gain \notin {NoVal, 0}
    THEN r.gain = data.gain /\ r.current = GetOr(data.current, 0)
    ELSE r.gain = NoVal /\ r.current = NoVal

-----------------------------------------------------------------------------
(* C11: the reconciler *)

\* the record's timestamp is within half an hour of now
WithinWindow(record) ==
    /\ record.has
    /\ record.created \notin {NoTime, BadTime}
    /\ Abs(now - record.created) < WindowMinutes

(* C11: a Success or AlreadySigned verdict is recorded as it is whatever    *)
(* record was fetched; a Failed verdict is recorded with a success status  *)
(* only when the record is dated today or within half an hour of now, and  *)
(* stays Failed with no record, no timestamp, an older record or a         *)
(* timestamp that does not parse.                                          *)
C11_ReconcilerOnlyUpgrades ==
    (Ended /\ inv.path \in {"success", "failure"}) =>
        IF inv.verdict.success
        THEN FinalStatus = IF inv.verdict.already_signed THEN "AlreadySigned"
                           ELSE "Success"
        ELSE IF OnLocalToday(inv.record) \/ WithinWindow(inv.record)
            THEN FinalStatus \in {"AlreadyByRecord", "SuccessByTimeWindow", "Failed"}
        ELSE FinalStatus = "Failed"

-----------------------------------------------------------------------------
(* C12, C13: the transport chain *)

ChainRan == inv.call.fn # "none"

Rejected(r) == r.kind = "raise" \/ Blocked(r)

Invoked(adapter) == \E i \in 1..Len(inv.call.calls) : inv.call.calls[i] = adapter

Times(adapter) == Cardinality({i \in 1..Len(inv.call.calls) : inv.call.calls[i] = adapter})

Priority(adapter) == CASE adapter = "A" -> 1 [] adapter = "B" -> 2 [] OTHER -> 3

(* C12: when the requests call of a chain answers with status 400 or 403   *)
(* or an HTML content type, the chain raises; it does not return that      *)
(* response.                                                               *)
C12_BlockedPlainRaises ==
    (ChainRan /\ Invoked("plain") /\ inv.p.kind # "raise" /\ Blocked(inv.p)) =>
        inv.call.out.kind = "raise"

-----------------------------------------------------------------------------
(* C14, C15: failures of the notification sink *)

(* C14: sign() returns normally with a SignAttempt whatever the transport, *)
(* the scheduler and the notification sink do; no exception leaves it.     *)
C14_NoExceptionEscapes == Ended => ~inv.escaped

(* C15: the ledger, the sign_dicts saved, the retry job added, attempts-   *)
(* used and the returned SignAttempt of an invocation are what they are    *)
(* when every notification is accepted.                                    *)
C15_SinkFailureChangesNothing ==
    Ended =>
        /\ sign_history = inv.quiet.h
        /\ inv.saved = inv.quiet.saved
        /\ inv.added = inv.quiet.added
        /\ retry_count = inv.quiet.rc
        /\ inv.ret = inv.quiet.ret

-----------------------------------------------------------------------------
(* C16: failures of the key-value store *)

\* the markers the first text rule looks for (line 516)
SuccessMarkers == {"jitui", "qiandao_chenggong", "qiandao_wancheng", "success"}

\* a Success or AlreadySigned verdict ends in a success-status attempt and
\* no Error attempt is handed to the ledger
SuccessStaysSuccess ==
    (Ended /\ inv.path = "success") =>
        /\ inv.ret.status \in SuccessFamily
        /\ \A i \in 1..Len(inv.saved) : inv.saved[i].status # "Error"

\* a body that is not JSON and carries a success marker is judged a success
TextRulesStillApply ==
    (Ended /\ inv.path # "no_cookie" /\ NonJson(inv.resp)
           /\ inv.resp.text \cap SuccessMarkers # {}) =>
        inv.verdict.success

(* C16: whether or not the key-value store works during sign(), a sign-in  *)
(* the classifier judged a success is recorded and returned with a success *)
(* status and no Error attempt, and a non-JSON body is still classified by *)
(* the text rules.                                                         *)
C16_StoreFailureHarmless == SuccessStaysSuccess /\ TextRulesStillApply

-----------------------------------------------------------------------------
(* C17: pruning *)

SavedOne == inv.entry # NoEntry

WholeDays(entry) == Day(LocalNow - entry.date)

\* the persisted entry comes from an entry whose date did not parse
Redated(entry) ==
    \E k \in 1..Len(inv.before) :
        /\ inv.before[k].date = BadTime
        /\ entry = [inv.before[k] EXCEPT !.date = LocalNow]

\* the persisted entry is the new one or an earlier one, as it was
AsItWas(entry) ==
    entry = inv.entry \/ \E k \in 1..Len(inv.before) : entry = inv.before[k]

(* C17: after _save_sign_history no persisted entry is more than           *)
(* history_days whole days old, except the entries whose date did not      *)
(* parse, every one of which is kept and dated now.                        *)
C17_PruneKeepsOnlyRecent ==
    SavedOne =>
        /\ \A i \in 1..Len(sign_history) :
              \/ Redated(sign_history[i])
              \/ AsItWas(sign_history[i]) /\ sign_history[i].date # BadTime
                                          /\ WholeDays(sign_history[i]) <= history_days
        /\ \A k \in 1..Len(inv.before) :
              inv.before[k].date = BadTime =>
                 \E i \in 1..Len(sign_history) :
                    sign_history[i] = [inv.before[k] EXCEPT !.date = LocalNow]

C17_Witness ==
    /\ SavedOne
    /\ history_days = 2
    /\ \E k \in 1..Len(inv.before) : inv.before[k].date = BadTime
    /\ \E k \in 1..Len(inv.before) :
          /\ inv.before[k].date # BadTime
          /\ WholeDays(inv.before[k]) > history_days
          /\ \A i \in 1..Len(sign_history) : sign_history[i].inv # k
    /\ \E i \in 1..Len(sign_history) : WholeDays(sign_history[i]) = 1

-----------------------------------------------------------------------------
(* C18: signed today *)

\* the ledger holds a success-family entry dated today
SuccessEntryToday ==
    \E i \in 1..Len(sign_history) :
        /\ sign_history[i].date # BadTime
        /\ Day(sign_history[i].date) = Day(LocalNow)
        /\ sign_history[i].status \in SuccessFamily

LastSignToday == last_sign_date # NoTime /\ Day(last_sign_date) = Day(LocalNow)

(* C18: _is_already_signed_today() is true exactly when the ledger holds a *)
(* success-family entry dated today or last_sign_date is today; it is true *)
(* when sign() has just ended with a success-family status.                *)
C18_SignedTodayExact ==
    /\ _is_already_signed_today <=> (SuccessEntryToday \/ LastSignToday)
    /\ (Ended /\ FinalStatus \in SuccessFamily) => _is_already_signed_today

-----------------------------------------------------------------------------
(* C19: proxy normalisation *)

NormalizeRan == inv.fn # "none"

\* the URL the input gives for a scheme: the lower-case key first, then the
\* upper-case key; "" when it gives none
Given(input, lower, upper) ==
    IF input.kind = "str" THEN input.url
    ELSE IF input.kind # "dict" THEN ""
    ELSE IF input.at[lower] \in ProxyUrls THEN input.at[lower]
    ELSE IF input.at[upper] \in ProxyUrls THEN input.at[upper]
    ELSE ""

(* C19: the result is nothing, or a mapping whose http and https are both  *)
(* URLs: each scheme has the URL the input gives for it and, when the      *)
(* input gives none, the URL of the other scheme; the result is nothing    *)
(* exactly when the input gives no URL at all.                             *)
C19_NormalizedOrNothing ==
    NormalizeRan =>
        LET h == Given(inv.input, "http", "HTTP")
            t == Given(inv.input, "https", "HTTPS")
        IN IF h = "" /\ t = "" THEN inv.out = NoProxies
           ELSE /\ inv.out.kind = "map"
                /\ inv.out.http \in ProxyUrls
                /\ inv.out.https \in ProxyUrls
                /\ inv.out.http = IF h # "" THEN h ELSE t
                /\ inv.out.https = IF t # "" THEN t ELSE h

C19_Witness ==
    /\ NormalizeRan
    /\ inv.fn = "helper"
    /\ inv.input.kind = "dict"
    /\ inv.input.at["http"] = "absent"
    /\ inv.input.at["HTTP"] = ""
    /\ inv.input.at["https"] = "None"
    /\ inv.input.at["HTTPS"] = "u2"
    /\ inv.out = [kind |-> "map", http |-> "u2", https |-> "u2"]

-----------------------------------------------------------------------------
(* C20: malformed numeric configuration *)

\* a raw value that cannot be converted to an integer
Malformed(value) == value.kind \in {"text", "null", "list", "inf"}

(* C20: after init_plugin, every numeric field whose configured value is   *)
(* malformed has its documented default (30, 3, 5, 12, 30), and no         *)
(* exception has escaped init_plugin.                                      *)
C20_MalformedGetsDefault ==
    inv.loaded =>
        /\ ~inv.escaped
        /\ \A k \in NumericFields :
              Malformed(inv.raw[k]) => inv.numbers[k] = Defaults[k]

\* the same for the values the field's own handler catches, in a config
\* whose member_id is a string
CaughtMalformedGetsDefault ==
    inv.loaded /\ inv.raw.member_id = "str" =>
        \A k \in NumericFields :
            inv.raw[k].kind \in {"text", "null", "list"} => inv.numbers[k] = Defaults[k]

-----------------------------------------------------------------------------
(* C21, C22, C23: sign-in statistics *)

StatsDone == inv.pc = "done"

RECURSIVE Delivered(_, _)
\* the rows of the first n answers, in order; with readable set, only of
\* the pages whose last row has a readable timestamp
Delivered(n, readable) ==
    IF n = 0 THEN <<>>
    ELSE LET a == inv.answers[n]
         IN Delivered(n - 1, readable)
            \o (IF a.kind = "rows" /\ (readable => Readable(a.rows[Len(a.rows)]))
                   THEN a.rows ELSE <<>>)

Rewarded(rows) == SelectSeq(rows, LAMBDA r : r.reward /\ InWindow(r, inv.days))

\* the reward rows within the window among all rows the server delivered
LedgerRows == Rewarded(Delivered(Len(inv.answers), FALSE))

\* the same among the pages whose last row has a readable timestamp
ReadRows == Rewarded(Delivered(Len(inv.answers), TRUE))

(* C21: when the credit ledger holds reward rows within the window, the     *)
(* statistics have total_amount = the sum of their amounts, days_count =    *)
(* their number, and average = total_amount / days_count exactly.          *)
C21_StatsOfRewardRows ==
    StatsDone /\ cookie /\ LedgerRows # <<>> =>
        /\ inv.out.kind = "stats"
        /\ inv.out.total_amount = Sum(Amounts(LedgerRows))
        /\ inv.out.days_count = Len(LedgerRows)
        /\ inv.out.average * inv.out.days_count = 100 * inv.out.total_amount

(* C21 as the code has it: the rows counted are the reward rows within the  *)
(* window on the pages whose last row has a readable timestamp, and the     *)
(* average is total_amount / days_count rounded to two decimals.           *)
C21_StatsOfRewardRowsAmended ==
    StatsDone /\ cookie /\ ReadRows # <<>> =>
        /\ inv.out.kind = "stats"
        /\ inv.out.total_amount = Sum(Amounts(ReadRows))
        /\ inv.out.days_count = Len(ReadRows)
        /\ 2 * Abs(inv.out.average * inv.out.days_count - 100 * inv.out.total_amount)
               <= inv.out.days_count

\* three reward rows of amounts 1, 2, 2: total 5, average 1.67
C21_Witness ==
    /\ StatsDone
    /\ cookie
    /\ Len(ReadRows) = 3
    /\ inv.out.total_amount = 5
    /\ inv.out.average = 167

\* the success-family entries of the local ledger that carry a reward and
\* lie within the window
LocalRewards ==
    SelectSeq(sign_history, LAMBDA e :
        /\ e.status \in SuccessFamily
        /\ e.gain # 0
        /\ e.date \notin {NoTime, BadTime}
        /\ e.date - tz >= QueryStart(inv.days))

(* C22: when the remote ledger gives no matching row, the statistics are   *)
(* those of the local ledger's success-family entries with a reward within *)
(* the window, and a zeroed record when there are none; the result is      *)
(* never empty.                                                            *)
C22_FallsBackToLocalLedger ==
    StatsDone /\ ReadRows = <<>> =>
        /\ inv.out.kind = "stats"
        /\ inv.out.total_amount = Sum(Gains(LocalRewards))
        /\ inv.out.days_count = Len(LocalRewards)
        /\ inv.out.records = Gains(LocalRewards)
        /\ inv.out.period = Period(inv.days)

\* the fall-back alone, with a cookie and a ledger of success-branch entries
FallbackOfSuccessBranch ==
    StatsDone /\ cookie /\ ReadRows = <<>>
      /\ (\A k \in 1..Len(sign_history) :
             sign_history[k].status \in {"Success", "AlreadySigned", "Failed"}) =>
        /\ inv.out.kind = "stats"
        /\ inv.out.total_amount = Sum(Gains(LocalRewards))
        /\ inv.out.days_count = Len(LocalRewards)

\* every answer before the last let the loop go on
OnlyLastStops(goes_on(_)) ==
    \A i \in 1..(Len(inv.answers) - 1) : goes_on(inv.answers[i])

InOrder ==
    /\ Len(inv.asked) = Len(inv.answers)
    /\ Len(inv.asked) <= MaxPages
    /\ \A i \in 1..Len(inv.asked) : inv.asked[i] = i

(* C23: the pages are requested in the order 1, 2, 3, ..., at most 20 of   *)
(* them, and none after a page that is empty, reports failure, is not JSON *)
(* or whose oldest row is older than the window start.                     *)
C23_PaginationStops ==
    /\ InOrder
    /\ OnlyLastStops(LAMBDA a :
           /\ a.kind = "rows"
           /\ \A k \in 1..Len(a.rows) :
                 Readable(a.rows[k]) => a.rows[k].t >= QueryStart(inv.days))

(* C23 as the code has it: none after a page that raised, is empty,        *)
(* reports failure, is not JSON, or whose last row is older than the       *)
(* window start or has no readable timestamp.                              *)
C23_PaginationStopsAmended ==
    /\ InOrder
    /\ OnlyLastStops(LAMBDA a :
           /\ a.kind = "rows"
           /\ Readable(a.rows[Len(a.rows)])
           /\ a.rows[Len(a.rows)].t >= QueryStart(inv.days))

\* all twenty pages were requested
C23_Witness ==
    /\ StatsDone
    /\ Len(inv.asked) = MaxPages
    /\ inv.answers[MaxPages].kind = "rows"

-----------------------------------------------------------------------------
(* C24: the clear-history flag *)

Cleared ==
    /\ sign_history = <<>>
    /\ last_sign_date = NoTime
    /\ last_attendance_record = EmptyRecord

(* C24: after init_plugin was called with clear_history set, the persisted *)
(* history, last-sign timestamp and cached records are cleared and the     *)
(* stored configuration has clear_history = false, whatever the other      *)
(* flags are.                                                              *)
C24_ClearHistoryOneShot ==
    inv.loaded /\ inv.cfg.clear_history => Cleared /\ ~inv.stored_clear

\* the same when run-once is set in the same config and the numeric fields
\* were read through
ClearHistoryWithRunOnce ==
    inv.loaded /\ inv.cfg.clear_history /\ inv.cfg.onlyonce /\ ~inv.failed =>
        Cleared /\ ~inv.stored_clear

-----------------------------------------------------------------------------
(* C25: the retry budget and the calendar day *)

\* every earlier invocation has its entry in the ledger, dated on an earlier
\* local day than today
AllEarlierOnEarlierDays ==
    \A i \in 1..(inv.id - 1) :
        \E k \in 1..Len(sign_history) :
            /\ sign_history[k].inv = i
            /\ sign_history[k].date # NoTime
            /\ Day(sign_history[k].date) < Day(LocalNow)

(* C25: the first failing invocation of a day, with a positive              *)
(* max-attempts, schedules a retry and leaves attempts-used at 1, however   *)
(* many failed attempts were counted on earlier days.                       *)
C25_RetryBudgetPerDay ==
    (Ended /\ FinalStatus = "Failed" /\ max_retries > 0 /\ ~inv.escaped
           /\ AllEarlierOnEarlierDays) =>
        /\ inv.added # {}
        /\ retry_count = 1

\* the same for the first invocation ever
FirstFailureSchedulesRetry ==
    (Ended /\ FinalStatus = "Failed" /\ max_retries > 0 /\ ~inv.escaped
           /\ inv.id = 1) =>
        /\ inv.added # {}
        /\ retry_count = 1

-----------------------------------------------------------------------------
(* C26: what the reconciler writes *)

(* C26: when the reconciler upgrades a Failed verdict because the fetched   *)
(* record is dated today, the entry written to the ledger carries the      *)
(* record's reward and, when the record has them, its rank and total.      *)
C26_UpgradeCarriesReward ==
    (Ended /\ FinalStatus = "AlreadyByRecord") =>
        /\ inv.record.has
        /\ inv.saved[1].gain = inv.record.gain
        /\ inv.record.rank # 0 =>
              /\ inv.saved[1].rank = inv.record.rank
              /\ inv.saved[1].total = inv.record.total

-----------------------------------------------------------------------------
(* C27: the proxy-interference fall-back *)

\* the positions of the calls of an adapter
CallsOf(adapter) == {i \in 1..Len(inv.call.calls) : inv.call.calls[i] = adapter}

\* the retry of adapter B was made
RetriedB == Cardinality(CallsOf("B")) = 2

RetryRules ==
    /\ Cardinality(CallsOf("A")) <= 1
    /\ Cardinality(CallsOf("B")) <= 2
    /\ RetriedB => proxy /\ inv.b.kind = "resp" /\ Blocked(inv.b)
    /\ (RetriedB /\ ~Rejected(inv.b2)) => inv.call.out = inv.b2
    /\ (RetriedB /\ Rejected(inv.b2)) =>
          /\ inv.call.out # inv.b2
          /\ Invoked("plain")

(* C27: a rejected response of a fingerprint-spoofing adapter, with a      *)
(* proxy configured, is followed by at most one retry of that adapter; the *)
(* retry is sent with no proxy applied; its response is returned only if   *)
(* accepted, and otherwise the next adapter is invoked.                    *)
C27_RetryWithoutProxy ==
    (ChainRan /\ inv.call.fn \in {"_smart_post", "_smart_get"}) =>
        /\ RetryRules
        /\ RetriedB => \A i \in CallsOf("B") : i > 1 /\ inv.call.calls[i - 1] = "B"
                                                => ~inv.call.proxied[i]

\* the rules of the retry apart from the proxy
RetryRulesHold ==
    (ChainRan /\ inv.call.fn \in {"_smart_post", "_smart_get"}) => RetryRules

-----------------------------------------------------------------------------
(* C28, C29: a sign-in answer that is not JSON *)

TextDone == inv.path = "text_done"
Took(step) == \E i \in 1..Len(inv.steps) : inv.steps[i] = step

\* the verdict the phrase rules give for a raw text whose success phrases
\* are those of marks
ByPhrase(text, code, marks, v) ==
    IF text \cap marks # {} THEN IsSuccess(v)
    ELSE IF "already" \in text THEN IsAlreadySigned(v)
    ELSE IF "cannot_get" \in text
        THEN IsFailed(v) /\ v.message = Fixed("rejected_get")
    ELSE IF "login" \in text
        THEN IsFailed(v) /\ v.message = Fixed("not_logged_in")
    ELSE IsFailed(v) /\ v.message = Coded("non_json", code)

(* C28: a raw text that the warm-up retry did not resolve is Success only  *)
(* if it contains the reward term or a sign-in success / completed phrase, *)
(* else AlreadySigned if it contains the already-completed phrase, else    *)
(* Failed 'server rejected GET', 'not logged in' or 'non-JSON response     *)
(* (<status>)' by the markers it contains.                                 *)
C28_TextPhraseRules ==
    (TextDone /\ Took("classify_text")) =>
        ByPhrase(inv.resp.text, inv.resp.status,
                 {"jitui", "qiandao_chenggong", "qiandao_wancheng"}, inv.verdict)

\* the same with the word "success" counted among the success phrases
TextPhraseRulesOfLine516 ==
    (TextDone /\ Took("classify_text")) =>
        ByPhrase(inv.resp.text, inv.resp.status,
                 {"jitui", "qiandao_chenggong", "qiandao_wancheng", "success"},
                 inv.verdict)

\* the POST after the warm-up answered JSON
RetryJson ==
    /\ Took("retry_post")
    /\ inv.retry.kind = "resp"
    /\ inv.retry.ct = "json"
    /\ inv.retry.isjson

\* what the rules for JSON bodies make of that answer
RetryVerdict == ClassifyJson(inv.retry.data, inv.retry.status)

\* ... and they classify it as success, already signed or cookie invalid
RetryClassified ==
    /\ RetryJson
    /\ \/ RetryVerdict.success
       \/ RetryVerdict.message = Fixed("cookie_invalid")

StepsInOrder ==
    /\ Len(inv.steps) >= 2
    /\ inv.steps[1] = "save_snippet"
    /\ inv.snippet <= 400
    /\ inv.snippet <= inv.len
    /\ inv.steps[2] = "warmup"
    /\ \A i \in 1..Len(inv.steps) :
          /\ inv.steps[i] = "retry_post" => i = 3
          /\ inv.steps[i] = "classify_text" => i = Len(inv.steps) /\ i > 2

(* C29: for a body that is not JSON the snippet (at most 400 characters)   *)
(* is saved first, then the warm-up and the retry POST are attempted, and  *)
(* the raw text is classified only if the retry gave no classifiable JSON; *)
(* when the retry's JSON is classified as success, already signed or       *)
(* cookie invalid, that classification is the result.                      *)
C29_SnippetWarmupThenText ==
    TextDone =>
        /\ StepsInOrder
        /\ Took("classify_text") => ~RetryClassified
        /\ RetryClassified => inv.verdict = RetryVerdict

\* the same when only the success flag and the already-completed phrase
\* count as classifying the retry's JSON
RetryByFlagOrAlready ==
    TextDone =>
        /\ StepsInOrder
        /\ LET hit == RetryJson /\ (\/ inv.retry.data.success = "true"
                                   \/ Contains(inv.retry.data.msg, "already"))
           IN /\ Took("classify_text") <=> ~hit
              /\ hit => inv.verdict = RetryVerdict

-----------------------------------------------------------------------------
(* C30: the wait before the sign-in call *)

\* the first POST of the invocation
FirstPost ==
    CHOOSE i \in 1..Len(inv.events) :
        /\ inv.events[i].kind = "post"
        /\ \A j \in 1..(i - 1) : inv.events[j].kind # "post"

Posted == inv.path = "wait" /\ \E i \in 1..Len(inv.events) : inv.events[i].kind = "post"

WaitedInRange ==
    /\ FirstPost > 1
    /\ inv.events[FirstPost - 1].kind = "wait"
    /\ inv.events[FirstPost - 1].d >= inv.min_delay
    /\ inv.events[FirstPost - 1].d <= inv.max_delay

(* C30: the sign-in call of sign() is immediately preceded by a wait whose  *)
(* length lies between min_delay and max_delay, for every configured pair  *)
(* of values; no sign-in call is sent without that wait.                   *)
C30_WaitBeforeSignIn == Posted => WaitedInRange

\* the same for the pairs with 0 < min_delay <= max_delay
WaitBeforeSignInWhenValid ==
    (Posted /\ inv.min_delay > 0 /\ inv.max_delay >= inv.min_delay) => WaitedInRange

-----------------------------------------------------------------------------
(* C31: entries are not updated in place *)

\* the persisted entries that come from the k-th entry read at line 878
CopiesOf(k) == {i \in 1..Len(sign_history) : sign_history[i].inv = inv.before[k].inv}

-----------------------------------------------------------------------------
(* C34: the retention boundary *)

Kept(k) == CopiesOf(k) # {}

(* C34: after _save_sign_history an entry whose date parses is kept if and *)
(* only if its whole-day age is at most history_days; an entry exactly     *)
(* history_days whole days old is kept.                                    *)
C34_KeptIffWithinRetention ==
    SavedOne =>
        \A k \in 1..Len(inv.before) :
            inv.before[k].date # BadTime =>
                (Kept(k) <=> WholeDays(inv.before[k]) <= history_days)

\* line 910: kept if and only if the whole-day age is below history_days
KeptIffBelowRetention ==
    SavedOne =>
        \A k \in 1..Len(inv.before) :
            inv.before[k].date # BadTime =>
                (Kept(k) <=> WholeDays(inv.before[k]) < history_days)

-----------------------------------------------------------------------------
(* C37: the entry just saved *)

(* C37: the entry passed to _save_sign_history is in the persisted ledger  *)
(* when the call returns, whatever history_days is.                        *)
C37_SavedEntryPresent ==
    SavedOne => \E i \in 1..Len(sign_history) : sign_history[i] = inv.entry

\* with a retention of at least one day the entry is there
SavedEntryPresentWhenPositive ==
    SavedOne /\ history_days >= 1 =>
        \E i \in 1..Len(sign_history) : sign_history[i] = inv.entry

-----------------------------------------------------------------------------
(* C32: the retry handle and the scheduler *)

(* C32: in every state _scheduled_retry is set only while the scheduler    *)
(* holds a pending retry job with that id: it is none once that retry has  *)
(* fired or been removed, or the scheduler has been stopped.               *)
C32_RetryHandleConsistent ==
    scheduled_retry # NoJob =>
        /\ scheduler = "running"
        /\ [id |-> scheduled_retry, kind |-> "retry"] \in jobs

\* the other direction: a pending retry job is the one the handle names
PendingRetryIsTheHandle ==
    \A j \in RetryJobs(jobs) : j.id = scheduled_retry

-----------------------------------------------------------------------------
(* C38: sign() without a cookie *)

NoCookieCall == Ended /\ inv.path = "no_cookie"

-----------------------------------------------------------------------------
(* C33: retrying terminates *)

\* the calls of sign() so far that a retry job triggered
RetryInvocations == IF invCount = 0 THEN 0 ELSE invCount - 1

Idle == RetryJobs(jobs) = {}

(* C33: when only the plugin's own retry jobs trigger sign() after the     *)
(* first call, at most max_retries calls are triggered by a retry job, and *)
(* the plugin reaches and stays in a state with no retry job pending.      *)
C33_RetryingTerminates ==
    <>[](Idle /\ RetryInvocations <= max_retries)

\* the last allowed retry has run and failed, and nothing is pending
C33_Witness ==
    /\ max_retries > 0
    /\ Ended
    /\ inv.path = "failure"
    /\ RetryInvocations = max_retries
    /\ retry_count = max_retries
    /\ Idle

-----------------------------------------------------------------------------
(* C35: the range of _retry_count *)

(* C35: in every state 0 <= _retry_count <= _max_retries, whatever calls   *)
(* of sign() and init_plugin came before.                                  *)
C35_RetryCountInRange == 0 <= retry_count /\ retry_count <= max_retries

\* between two calls of init_plugin the counter stays in range
RetryCountInRangeUntilReconfigured ==
    initCount = 0 => 0 <= retry_count /\ retry_count <= max_retries

-----------------------------------------------------------------------------
(* C36: overlapping calls *)

BothSaved == \A w \in Workers : inv.pc[w] = "saved"

Holds(entry) == \E i \in 1..Len(sign_history) : sign_history[i] = entry

(* C36: when two calls of sign() interleave their read, append, prune and  *)
(* write of the persisted history, the ledger afterwards holds the entry   *)
(* of both calls.                                                          *)
C36_NoEntryLostOnOverlap ==
    BothSaved => \A w \in Workers : Holds(WorkerEntry(w))

\* two calls one after the other leave both entries
BothEntriesWhenNotOverlapped ==
    BothSaved /\ ~inv.overlapped => \A w \in Workers : Holds(WorkerEntry(w))

-----------------------------------------------------------------------------
(* C39: the proxy of a call *)

CalledWithoutProxy == inv.call # NoCall /\ ~inv.proxies

(* C39: a chain call made with no proxy configured sends the request of    *)
(* every adapter it invokes without a proxy, whatever the earlier calls on *)
(* the same scraper session were made with.                                *)
C39_NoProxyLeftFromEarlierCalls ==
    CalledWithoutProxy =>
        \A k \in DOMAIN inv.call.proxied : ~inv.call.proxied[k]

\* the curl_cffi and requests calls use the proxies of the current call
OtherAdaptersUseCurrentProxies ==
    inv.call # NoCall =>
        \A k \in DOMAIN inv.call.proxied :
            inv.call.calls[k] # "A" => inv.call.proxied[k] = inv.proxies

====
